---- MODULE Spec2Model ----
(***************************************************************************)
(* GeoPro CAD (src/index.tsx, first application, lines 1-1727): the        *)
(* document (points, annotations, polygons), the undo/redo history kept by *)
(* App, and the tool state machine of SurveyMap.                           *)
(*                                                                         *)
(* Numbers.  World coordinates are integers in units of 0.1 m, relative to *)
(* the origin (250000, 7449900); every computation of the code used here   *)
(* is invariant under that translation.  Optional values (T | null) are    *)
(* sequences of length 0 or 1.  A JavaScript Set is the sequence of its    *)
(* members in insertion order.  An identifier string is the pair of its    *)
(* prefix and its number: "P05" is <<"P", 5>>.                             *)
(*                                                                         *)
(* Events.  Every handler runs to completion on the state of the latest    *)
(* render; the setState calls of one handler are collected in an update    *)
(* record (field -> new value) and applied together, a later call          *)
(* overriding an earlier one on the same field.  Two handlers run by the   *)
(* same event (a click that bubbles) both read the state before the event. *)
(*                                                                         *)
(* History variables.  lastEvent names the last event handled; lastInput   *)
(* holds the inputs of the last pointer event (position, shift modifier,   *)
(* answer of prompt()); handleMouseUp takes no event and leaves it alone.  *)
(***************************************************************************)
EXTENDS Integers, Sequences, FiniteSets, TLC

VARIABLES points, annotations, polygons, selectedIds, history, historyIndex,
          viewBox, activeTool, snapEnabled, isDragging, dragStart, dragOffset,
          selectionBoxStart, selectionBoxEnd, movingId, movingType,
          originalPos, measureStart, measureEnd, areaPoints, viewHistory,
          lastEvent, lastInput,
          gmPoints, snapSettings, snapPoint, snapMidpoint, snapGrid

vars == <<points, annotations, polygons, selectedIds, history, historyIndex,
          viewBox, activeTool, snapEnabled, isDragging, dragStart, dragOffset,
          selectionBoxStart, selectionBoxEnd, movingId, movingType,
          originalPos, measureStart, measureEnd, areaPoints, viewHistory,
          lastEvent, lastInput,
          gmPoints, snapSettings, snapPoint, snapMidpoint, snapGrid>>

\* the state of the GeoMaster application (src/unnamed/part_000) that its snap
\* logic reads and writes; gmPoints is its points
gmVars == <<gmPoints, snapSettings, snapPoint, snapMidpoint, snapGrid>>

----------------------------------------------------------------------------
(* Bounds of the model *)

MaxHistory == 3

MaxAnnotations == 1

MaxPolygons == 1

MaxAreaPoints == 4

MaxCommits == 60

MaxBuffered == 2

MaxPans == 2

MaxLots == 2

MaxLotVertices == 6

MaxLotHistory == 6

MaxZooms == 1

MaxViews == 2

MaxNewPoints == 1

----------------------------------------------------------------------------
(* Values *)

None == << >>

Some(v) == <<v>>

Range(s) == {s[i] : i \in 1..Len(s)}

\* the member of a one-element set
The(S) == CHOOSE v \in S : TRUE

Abs(n) == IF n < 0 THEN -n ELSE n

Max(a, b) == IF a > b THEN a ELSE b

Min(a, b) == IF a < b THEN a ELSE b

RECURSIVE Gcd(_, _)
Gcd(a, b) == IF b = 0 THEN a ELSE Gcd(b, a % b)

RECURSIVE SqrtIter(_, _, _)
SqrtIter(n, lo, hi) ==
    IF lo >= hi THEN lo
    ELSE LET mid == (lo + hi + 1) \div 2
         IN IF mid * mid <= n THEN SqrtIter(n, mid, hi) ELSE SqrtIter(n, lo, mid - 1)

\* Math.sqrt on a non-negative integer, rounded down to a whole unit
Sqrt(n) == SqrtIter(n, 0, Min(n, 46340))

\* the number num / den
Ratio(n, d) == [num |-> n, den |-> d]

Pos(px, py) == [x |-> px, y |-> py]

\* the update record of a handler that calls no setter
NoUpdate == [f \in {} |-> TRUE]

\* the setters of u2 run after those of u1
Then(u1, u2) == u2 @@ u1

\* array.findIndex, 1-based; 0 when no element matches
FindIndex(s, Test(_)) ==
    IF \E i \in 1..Len(s) : Test(s[i])
    THEN CHOOSE i \in 1..Len(s) : Test(s[i]) /\ \A j \in 1..(i - 1) : ~Test(s[j])
    ELSE 0

\* array.map
Map(s, F(_)) == [i \in 1..Len(s) |-> F(s[i])]

\* new Set(...).add(id) and .delete(id), on the insertion-ordered members
SetAdd(s, id) == IF id \in Range(s) THEN s ELSE Append(s, id)

SetDelete(s, id) == SelectSeq(s, LAMBDA e : e # id)

\* Exact arithmetic on the numbers num / den.  NotANumber stands for the
\* result of a division by zero and of every operation on such a result.
NotANumber == Ratio(0, 0)

\* n / d in lowest terms with a positive denominator
Reduced(n, d) ==
    IF d = 0 THEN NotANumber
    ELSE LET g == Gcd(Abs(n), Abs(d))
             s == IF d < 0 THEN -1 ELSE 1
         IN Ratio((s * n) \div g, (s * d) \div g)

Num(n) == Ratio(n, 1)

\* The operands are brought to their least common denominator, and common
\* factors are cancelled before a product is formed, to keep the
\* intermediate integers small.
Plus(a, b) ==
    IF a.den = 0 \/ b.den = 0 THEN NotANumber
    ELSE LET g == Gcd(a.den, b.den)
         IN Reduced(a.num * (b.den \div g) + b.num * (a.den \div g),
                    (a.den \div g) * b.den)

Minus(a, b) == Plus(a, Ratio(-b.num, b.den))

Times(a, b) ==
    IF a.den = 0 \/ b.den = 0 THEN NotANumber
    ELSE LET p == Reduced(a.num, b.den)
             q == Reduced(b.num, a.den)
         IN Reduced(p.num * q.num, p.den * q.den)

Over(a, b) ==
    IF a.den = 0 \/ b.den = 0 \/ b.num = 0 THEN NotANumber
    ELSE Times(a, Reduced(b.den, b.num))

\* Math.min
MinOf(a, b) ==
    IF a.den = 0 \/ b.den = 0 THEN NotANumber
    ELSE IF a.num * b.den < b.num * a.den THEN a ELSE b

----------------------------------------------------------------------------
(* Utils *)

calculateArea(pts) ==
    IF Len(pts) < 3 THEN Ratio(0, 1)
    ELSE LET n == Len(pts)
             term(i) == LET j == (i % n) + 1
                        IN pts[i].x * pts[j].y - pts[j].x * pts[i].y
             RECURSIVE sum(_)
             sum(i) == IF i = 0 THEN 0 ELSE sum(i - 1) + term(i)
         IN Ratio(Abs(sum(n)), 2)

calculatePerimeter(pts) ==
    IF Len(pts) < 2 THEN 0
    ELSE LET n == Len(pts)
             seg(i) == LET j == (i % n) + 1
                           dx == pts[j].x - pts[i].x
                           dy == pts[j].y - pts[i].y
                       IN Sqrt(dx * dx + dy * dy)
             RECURSIVE sum(_)
             sum(i) == IF i = 0 THEN 0 ELSE sum(i - 1) + seg(i)
         IN sum(n)

----------------------------------------------------------------------------
(* App: the initial document *)

\* ids are <<prefix, number>>: 'M-01' .. 'M-04'; the desc of M-03 is written
\* without its accent
InitialPoints ==
    << [id |-> <<"M-", 1>>, x |-> 1005, y |-> 2002, z |-> 7500, desc |-> "Marco"],
       [id |-> <<"M-", 2>>, x |-> 2500, y |-> 2205, z |-> 7521, desc |-> "Cerca"],
       [id |-> <<"M-", 3>>, x |-> 2803, y |-> 801, z |-> 7485, desc |-> "Vertice"],
       [id |-> <<"M-", 4>>, x |-> 901, y |-> 500, z |-> 7492, desc |-> "Estrada"] >>

InitialViewBox == [x |-> 0, y |-> 0, w |-> 1000, h |-> 1000]

\* containerRef.current.getBoundingClientRect().width, in pixels
RectWidth == 1000

\* the history keeps at most this many entries
HistoryCap == 50

\* layerConfig.selectedColor, and the annotation colour of the dark theme
SelectedColor == "#f59e0b"

DarkTextColor == "#FFF"

Doc(pts, annos, polys) == [points |-> pts, annotations |-> annos, polygons |-> polys]

LiveDoc == Doc(points, annotations, polygons)

----------------------------------------------------------------------------
(* App: history *)

\* updateStateWithHistory without history.slice(0, historyIndex + 1)
updateStateKeepingRedoTail(newPoints, newAnnotations, newPolygons) ==
    LET currentEntry == Doc(newPoints, newAnnotations, newPolygons)
        pushed == Append(history, currentEntry)
        newHistory == IF Len(pushed) > HistoryCap THEN Tail(pushed) ELSE pushed
    IN [history |-> newHistory, historyIndex |-> Len(newHistory) - 1,
        points |-> newPoints, annotations |-> newAnnotations, polygons |-> newPolygons]

\* updateStateWithHistory without the shift() of the oldest entry
updateStateUncapped(newPoints, newAnnotations, newPolygons) ==
    LET currentEntry == Doc(newPoints, newAnnotations, newPolygons)
        newHistory == Append(SubSeq(history, 1, historyIndex + 1), currentEntry)
    IN [history |-> newHistory, historyIndex |-> Len(newHistory) - 1,
        points |-> newPoints, annotations |-> newAnnotations, polygons |-> newPolygons]

\* updateStateWithHistory taking the index before the shift() of the oldest entry
updateStateIndexBeforeShift(newPoints, newAnnotations, newPolygons) ==
    LET currentEntry == Doc(newPoints, newAnnotations, newPolygons)
        pushed == Append(SubSeq(history, 1, historyIndex + 1), currentEntry)
        newHistory == IF Len(pushed) > HistoryCap THEN Tail(pushed) ELSE pushed
    IN [history |-> newHistory, historyIndex |-> Len(pushed) - 1,
        points |-> newPoints, annotations |-> newAnnotations, polygons |-> newPolygons]

\* updateStateWithHistory skipping the push of an entry equal to the current one
updateStateDeduplicating(newPoints, newAnnotations, newPolygons) ==
    LET currentEntry == Doc(newPoints, newAnnotations, newPolygons)
        pushed == Append(SubSeq(history, 1, historyIndex + 1), currentEntry)
        newHistory == IF Len(pushed) > HistoryCap THEN Tail(pushed) ELSE pushed
    IN IF historyIndex >= 0 /\ currentEntry = history[historyIndex + 1]
       THEN [points |-> newPoints, annotations |-> newAnnotations, polygons |-> newPolygons]
       ELSE [history |-> newHistory, historyIndex |-> Len(newHistory) - 1,
             points |-> newPoints, annotations |-> newAnnotations,
             polygons |-> newPolygons]

\* updateStateWithHistory pushing the entry twice
updateStatePushingTwice(newPoints, newAnnotations, newPolygons) ==
    LET currentEntry == Doc(newPoints, newAnnotations, newPolygons)
        pushed == Append(Append(SubSeq(history, 1, historyIndex + 1), currentEntry),
                         currentEntry)
        newHistory == IF Len(pushed) > HistoryCap THEN Tail(pushed) ELSE pushed
    IN [history |-> newHistory, historyIndex |-> Len(newHistory) - 1,
        points |-> newPoints, annotations |-> newAnnotations, polygons |-> newPolygons]

\* updateStateWithHistory without the history: the three setters only
updateStateOnly(newPoints, newAnnotations, newPolygons) ==
    [points |-> newPoints, annotations |-> newAnnotations, polygons |-> newPolygons]

updateStateWithHistory(newPoints, newAnnotations, newPolygons) ==
    LET currentEntry == Doc(newPoints, newAnnotations, newPolygons)
        pushed == Append(SubSeq(history, 1, historyIndex + 1), currentEntry)
        newHistory == IF Len(pushed) > HistoryCap THEN Tail(pushed) ELSE pushed
    IN [history |-> newHistory, historyIndex |-> Len(newHistory) - 1,
        points |-> newPoints, annotations |-> newAnnotations, polygons |-> newPolygons]

\* undo taking the entry it leaves off the history
undoPoppingEntry ==
    IF historyIndex > 0
    THEN LET prevIndex == historyIndex - 1
             entry == history[prevIndex + 1]
         IN [points |-> entry.points, annotations |-> entry.annotations,
             polygons |-> entry.polygons, historyIndex |-> prevIndex,
             history |-> SubSeq(history, 1, prevIndex + 1)]
    ELSE NoUpdate

\* undo moving the index without restoring the entry
undoIndexOnly ==
    IF historyIndex > 0 THEN [historyIndex |-> historyIndex - 1] ELSE NoUpdate

\* undo stopping one entry early
undoAboveOne ==
    IF historyIndex > 1
    THEN LET prevIndex == historyIndex - 1
             entry == history[prevIndex + 1]
         IN [points |-> entry.points, annotations |-> entry.annotations,
             polygons |-> entry.polygons, historyIndex |-> prevIndex]
    ELSE NoUpdate

undo ==
    IF historyIndex > 0
    THEN LET prevIndex == historyIndex - 1
             entry == history[prevIndex + 1]
         IN [points |-> entry.points, annotations |-> entry.annotations,
             polygons |-> entry.polygons, historyIndex |-> prevIndex]
    ELSE NoUpdate

redo ==
    IF historyIndex < Len(history) - 1
    THEN LET nextIndex == historyIndex + 1
             entry == history[nextIndex + 1]
         IN [points |-> entry.points, annotations |-> entry.annotations,
             polygons |-> entry.polygons, historyIndex |-> nextIndex]
    ELSE NoUpdate

\* useEffect(() => { if (history.length === 0) ... }, [])
mountEffect ==
    IF Len(history) = 0
    THEN [history |-> <<LiveDoc>>, historyIndex |-> 0]
    ELSE NoUpdate

----------------------------------------------------------------------------
(* App: manual import.  A text is the sequence of its characters. *)

NewLine == "\n"

Tab == "\t"

Quote == "\""

WhiteSpace == {" ", Tab, NewLine}

DigitChars == <<"0", "1", "2", "3", "4", "5", "6", "7", "8", "9">>

IsDigit(c) == \E d \in 1..Len(DigitChars) : DigitChars[d] = c

DigitValue(c) == (CHOOSE d \in 1..Len(DigitChars) : DigitChars[d] = c) - 1

\* the string of the characters of s
RECURSIVE Text(_)
Text(s) == IF s = << >> THEN "" ELSE Head(s) \o Text(Tail(s))

\* String.prototype.trim
RECURSIVE trimStart(_)
trimStart(s) == IF s # << >> /\ Head(s) \in WhiteSpace THEN trimStart(Tail(s)) ELSE s

RECURSIVE trimEnd(_)
trimEnd(s) ==
    IF s # << >> /\ s[Len(s)] \in WhiteSpace THEN trimEnd(SubSeq(s, 1, Len(s) - 1)) ELSE s

trim(s) == trimEnd(trimStart(s))

\* String.prototype.split with a separator of one character
RECURSIVE split(_, _)
split(s, sep) ==
    IF \A i \in 1..Len(s) : s[i] # sep THEN <<s>>
    ELSE LET k == CHOOSE i \in 1..Len(s) : s[i] = sep /\ \A j \in 1..(i - 1) : s[j] # sep
         IN <<SubSeq(s, 1, k - 1)>> \o split(SubSeq(s, k + 1, Len(s)), sep)

\* split(/\s+/) of a trimmed text: the runs of white space separate
splitWhiteSpace(s) ==
    SelectSeq(split([i \in 1..Len(s) |-> IF s[i] \in WhiteSpace THEN " " ELSE s[i]], " "),
              LAMBDA c : c # << >>)

\* c.replace(/^"|"$/g, '')
stripQuotes(c) ==
    LET a == IF c # << >> /\ Head(c) = Quote THEN Tail(c) ELSE c
    IN IF a # << >> /\ a[Len(a)] = Quote THEN SubSeq(a, 1, Len(a) - 1) ELSE a

\* the digits at the start of s
RECURSIVE digitsOf(_)
digitsOf(s) == IF s # << >> /\ IsDigit(Head(s)) THEN <<Head(s)>> \o digitsOf(Tail(s)) ELSE << >>

RECURSIVE wholeNumber(_)
wholeNumber(ds) ==
    IF ds = << >> THEN 0 ELSE 10 * wholeNumber(SubSeq(ds, 1, Len(ds) - 1)) + DigitValue(ds[Len(ds)])

\* parseFloat of the text s, or of undefined when s is None: None for NaN,
\* Some(v) for the number v in world units of 0.1 m.  The number is read from
\* the longest prefix of the form sign, digits, point, digits; the texts of
\* the model carry at most one decimal and no exponent.
parseFloat(s) ==
    IF s = None THEN None
    ELSE LET t == trimStart(s[1])
             signed == t # << >> /\ Head(t) \in {"-", "+"}
             sign == IF signed /\ Head(t) = "-" THEN -1 ELSE 1
             body == IF signed THEN Tail(t) ELSE t
             int == digitsOf(body)
             rest == SubSeq(body, Len(int) + 1, Len(body))
             frac == IF rest # << >> /\ Head(rest) = "." THEN digitsOf(Tail(rest)) ELSE << >>
         IN IF int = << >> /\ frac = << >> THEN None
            ELSE Some(sign * (10 * wholeNumber(int)
                                + (IF frac = << >> THEN 0 ELSE DigitValue(frac[1]))))

\* f || 0 for the result f of parseFloat
orZero(f) == IF f = None \/ f = Some(0) THEN Some(0) ELSE f

isNaN(f) == f = None

\* useState<ColumnMapping>: the initial mapping of the import dialog
manualMapping == [id |-> 0, x |-> 1, y |-> 2, z |-> 3, desc |-> 4, delimiter |-> ","]

\* cols[k]: Some(text), or None for undefined
At(cols, k) == IF k + 1 \in 1..Len(cols) THEN Some(cols[k + 1]) ELSE None

\* `P${n}`: "P" and the number without a leading zero, which is "P05"'s
\* <<"P", 5>> only from 10 upwards
TemplateId(n) == IF n < 10 THEN <<"P" \o DigitChars[n + 1], 0>> ELSE <<"P", n>>

\* the points handleManualImport pushes for the line with the 0-based index
importedFrom(line, index) ==
    IF trim(line) = << >> THEN << >>
    ELSE LET raw == IF manualMapping.delimiter = "tab" THEN split(line, Tab)
                    ELSE IF manualMapping.delimiter = "space" THEN splitWhiteSpace(trim(line))
                    ELSE split(line, manualMapping.delimiter)
             cols == Map(raw, LAMBDA c : trim(stripQuotes(c)))
             idCol == At(cols, manualMapping.id)
             descCol == At(cols, manualMapping.desc)
             x == orZero(parseFloat(At(cols, manualMapping.x)))
             y == orZero(parseFloat(At(cols, manualMapping.y)))
             z == orZero(parseFloat(At(cols, manualMapping.z)))
             p == [id |-> IF idCol = None \/ idCol = Some(<< >>)
                          THEN TemplateId(Len(points) + index + 1)
                          ELSE <<Text(idCol[1]), 0>>,
                   x |-> x[1], y |-> y[1], z |-> z[1],
                   desc |-> IF descCol = None THEN "" ELSE Text(descCol[1])]
         IN IF Len(cols) < 3 THEN << >>
            ELSE IF ~isNaN(x) /\ ~isNaN(y) THEN <<p>> ELSE << >>

\* handleManualImport, with the importText the dialog holds
handleManualImport(importText) ==
    IF trim(importText) = << >> THEN NoUpdate
    ELSE LET lines == split(trim(importText), NewLine)
             RECURSIVE newPoints(_)
             newPoints(n) ==
                 IF n = 0 THEN << >>
                 ELSE newPoints(n - 1) \o importedFrom(lines[n], n - 1)
         IN updateStateWithHistory(points \o newPoints(Len(lines)), annotations, polygons)

----------------------------------------------------------------------------
(* SurveyMap: bounds, transform, tolerance *)

Xs == {points[i].x : i \in 1..Len(points)}

Ys == {points[i].y : i \in 1..Len(points)}

SetMax(S) == CHOOSE m \in S : \A e \in S : e <= m

SetMin(S) == CHOOSE m \in S : \A e \in S : m <= e

\* bounds.w and bounds.h times ten (a world unit is 0.1 m: the code's 100 is
\* 1000 units, its 10 is 100 units)
boundsW10 ==
    IF Len(points) = 0 THEN 10000
    ELSE LET d == SetMax(Xs) - SetMin(Xs)
             w == IF d = 0 THEN 100 ELSE d
         IN 12 * w

boundsH10 ==
    IF Len(points) = 0 THEN 10000
    ELSE LET d == SetMax(Ys) - SetMin(Ys)
             h == IF d = 0 THEN 100 ELSE d
         IN 12 * h

\* bounds without the default extent for a zero width or height
boundsWithoutDefault ==
    IF Len(points) = 0
    THEN [minX |-> Num(0), maxX |-> Num(1000), minY |-> Num(0), maxY |-> Num(1000),
          w |-> Num(1000), h |-> Num(1000)]
    ELSE LET minX == SetMin(Xs)
             maxX == SetMax(Xs)
             minY == SetMin(Ys)
             maxY == SetMax(Ys)
             w == maxX - minX
             h == maxY - minY
         IN [minX |-> Reduced(10 * minX - w, 10), maxX |-> Reduced(10 * maxX + w, 10),
             minY |-> Reduced(10 * minY - h, 10), maxY |-> Reduced(10 * maxY + h, 10),
             w |-> Reduced(12 * w, 10), h |-> Reduced(12 * h, 10)]

\* the bounds of the points, in world units of 0.1 m: the code's 100 is 1000
\* units and its 10 is 100 units
bounds ==
    IF Len(points) = 0
    THEN [minX |-> Num(0), maxX |-> Num(1000), minY |-> Num(0), maxY |-> Num(1000),
          w |-> Num(1000), h |-> Num(1000)]
    ELSE LET minX == SetMin(Xs)
             maxX == SetMax(Xs)
             minY == SetMin(Ys)
             maxY == SetMax(Ys)
             w == IF maxX - minX = 0 THEN 100 ELSE maxX - minX
             h == IF maxY - minY = 0 THEN 100 ELSE maxY - minY
         IN [minX |-> Reduced(10 * minX - w, 10), maxX |-> Reduced(10 * maxX + w, 10),
             minY |-> Reduced(10 * minY - h, 10), maxY |-> Reduced(10 * maxY + h, 10),
             w |-> Reduced(12 * w, 10), h |-> Reduced(12 * h, 10)]

\* the transform memoised from the bounds b
transformOf(b) ==
    LET scaleX == Over(Num(1000), b.w)
        scaleY == Over(Num(1000), b.h)
        scale == MinOf(scaleX, scaleY)
        drawnW == Times(b.w, scale)
        drawnH == Times(b.h, scale)
        offsetX == Over(Minus(Num(1000), drawnW), Num(2))
        offsetY == Over(Minus(Num(1000), drawnH), Num(2))
    IN [scale |-> scale, offsetX |-> offsetX, offsetY |-> offsetY,
        minX |-> b.minX, maxY |-> b.maxY]

transform == The({transformOf(b) : b \in {bounds}})

toSvg(x, y) ==
    The({[svgX |-> Plus(Times(Minus(x, t.minX), t.scale), t.offsetX),
          svgY |-> Plus(Times(Minus(t.maxY, y), t.scale), t.offsetY)] : t \in {transform}})

\* a fromSvg that leaves the centring offsets out
fromSvgWithoutOffset(svgX, svgY) ==
    The({[x |-> Plus(Over(svgX, t.scale), t.minX),
          y |-> Minus(t.maxY, Over(svgY, t.scale))] : t \in {transform}})

fromSvg(svgX, svgY) ==
    The({[x |-> Plus(Over(Minus(svgX, t.offsetX), t.scale), t.minX),
          y |-> Minus(t.maxY, Over(Minus(svgY, t.offsetY), t.scale))] : t \in {transform}})

\* a tolerance that takes the zoom factor of the initial viewport
toleranceWorldUnzoomed(toleranceScreen, width) ==
    LET n == toleranceScreen * InitialViewBox.w * Max(boundsW10, boundsH10)
        d == width * 10000
        g == Gcd(n, d)
    IN Ratio(n \div g, d \div g)

\* (toleranceScreen * zoomFactor) / transform.scale with zoomFactor =
\* viewBox.w / width and scale = min(1000 / bounds.w, 1000 / bounds.h),
\* as a fraction in lowest terms
toleranceWorld(toleranceScreen, width) ==
    LET n == toleranceScreen * viewBox.w * Max(boundsW10, boundsH10)
        d == width * 10000
        g == Gcd(n, d)
    IN Ratio(n \div g, d \div g)

\* Math.sqrt(d2) < tol, for tol = q + r / den: d2 < q^2 + 2qr/den + (r/den)^2
Within(d2, tol) ==
    \E d \in {d2} : \E t \in {tol} : \E q \in {t.num \div t.den} : \E r \in {t.num % t.den} :
        IF d < q * q THEN TRUE
        ELSE IF d >= (q + 1) * (q + 1) THEN FALSE
        ELSE (d - q * q) * t.den * t.den < 2 * q * r * t.den + r * r

Dist2(a, b) == (a.x - b.x) * (a.x - b.x) + (a.y - b.y) * (a.y - b.y)

\* the tolerance of the hit-tests of the handlers
hitTolerance == toleranceWorld(15, RectWidth)

RECURSIVE Flatten(_)
Flatten(ss) == IF Len(ss) = 0 THEN << >> ELSE Head(ss) \o Flatten(Tail(ss))

\* the candidates in the order getNearestSnapPoint visits them
snapCandidates ==
    Map(points, LAMBDA p : Pos(p.x, p.y))
        \o areaPoints
        \o Flatten(Map(polygons, LAMBDA poly : poly.points))

\* the loops of getNearestSnapPoint from the i-th candidate on: best is the
\* index of nearest (0 for null) and minD the distance of that candidate
\* (Infinity for null); "d < toleranceWorld && d < minD" on the squares
RECURSIVE nearestFrom(_, _, _, _, _)
nearestFrom(c, p, tol, i, best) ==
    IF i > Len(c) THEN best
    ELSE IF /\ Within(Dist2(c[i], p), tol)
            /\ (best = 0 \/ Dist2(c[i], p) < Dist2(c[best], p))
         THEN nearestFrom(c, p, tol, i + 1, i)
         ELSE nearestFrom(c, p, tol, i + 1, best)

\* the same loops replacing nearest by a candidate that is as near
RECURSIVE nearestOrAsNearFrom(_, _, _, _, _)
nearestOrAsNearFrom(c, p, tol, i, best) ==
    IF i > Len(c) THEN best
    ELSE IF /\ Within(Dist2(c[i], p), tol)
            /\ (best = 0 \/ Dist2(c[i], p) <= Dist2(c[best], p))
         THEN nearestOrAsNearFrom(c, p, tol, i + 1, i)
         ELSE nearestOrAsNearFrom(c, p, tol, i + 1, best)

nearestOrAsNear(c, p, tol) ==
    The({IF best = 0 THEN None ELSE Some(c[best]) :
             best \in {nearestOrAsNearFrom(c, p, tol, 1, 0)}})

\* what the loops leave in nearest
nearest(c, p, tol) ==
    The({IF best = 0 THEN None ELSE Some(c[best]) :
             best \in {nearestFrom(c, p, tol, 1, 0)}})

getNearestSnapPoint(at, toleranceScreen) ==
    The({nearest(c, p, tol) : c \in {snapCandidates}, p \in {at},
                             tol \in {toleranceWorld(toleranceScreen, 1000)}})

\* worldPos after "if (snapEnabled) { snap = ...; if (snap) worldPos = snap }"
snapped(at) ==
    The({IF snap # None THEN snap[1] ELSE p :
             p \in {at}, snap \in {getNearestSnapPoint(at, 15)}})

----------------------------------------------------------------------------
(* SurveyMap: pointer handlers.  worldPos is fromSvg of the event position, *)
(* client its screen position, shiftKey the modifier.                       *)

\* a hit-test that takes the first entity, however far it is
hitIndexAtAnyDistance(list, worldPos) ==
    FindIndex(list, LAMBDA e : TRUE)

hitIndex(list, worldPos) ==
    FindIndex(list, LAMBDA e : Within(Dist2(e, worldPos), hitTolerance))

\* new Set(e.shiftKey ? selectedIds : []), then delete or add
clickSelection(id, shiftKey) ==
    LET newSet == IF shiftKey THEN selectedIds ELSE << >>
    IN IF shiftKey /\ id \in Range(selectedIds)
       THEN SetDelete(newSet, id)
       ELSE SetAdd(newSet, id)

handleMouseDown(worldPos, client, shiftKey) ==
    LET hitPoint == hitIndex(points, worldPos)
        hitAnno == hitIndex(annotations, worldPos)
        startMove(e, type) ==
            [movingId |-> Some(e.id), movingType |-> Some(type),
             originalPos |-> Some(Pos(e.x, e.y)),
             dragOffset |-> Pos(worldPos.x - e.x, worldPos.y - e.y),
             isDragging |-> TRUE]
    IN IF activeTool = "pan"
       THEN [isDragging |-> TRUE, dragStart |-> client]
       ELSE IF activeTool = "box-select"
       THEN [selectionBoxStart |-> Some(worldPos), selectionBoxEnd |-> Some(worldPos)]
       ELSE IF activeTool = "move" /\ hitPoint # 0
       THEN startMove(points[hitPoint], "point")
       ELSE IF activeTool = "move" /\ hitAnno # 0
       THEN startMove(annotations[hitAnno], "annotation")
       ELSE IF activeTool = "select" /\ hitPoint # 0
       THEN [selectedIds |-> clickSelection(points[hitPoint].id, shiftKey)]
       ELSE IF activeTool = "select" /\ hitAnno # 0
       THEN [selectedIds |-> clickSelection(annotations[hitAnno].id, shiftKey)]
       ELSE IF activeTool = "select"
       THEN [isDragging |-> TRUE, dragStart |-> client]
       ELSE NoUpdate

\* handleMouseMove snapping the pointer position under the box-select tool too
handleMouseMoveSnappingBox(snap, rawPos, client) ==
    LET body(worldPos) ==
            LET box == IF activeTool = "box-select" /\ selectionBoxStart # None
                       THEN [selectionBoxEnd |-> Some(worldPos)] ELSE NoUpdate
                dx == client.x - dragStart.x
                dy == client.y - dragStart.y
                pan == IF activeTool \in {"pan", "select"} /\ isDragging
                       THEN [viewBox |-> [viewBox EXCEPT
                                             !.x = viewBox.x - (dx * viewBox.w) \div RectWidth,
                                             !.y = viewBox.y - (dy * viewBox.w) \div RectWidth],
                             dragStart |-> client]
                       ELSE NoUpdate
            IN Then(box, pan)
    IN The({body(worldPos) :
                worldPos \in {IF snap /\ activeTool \notin {"pan", "select"}
                              THEN snapped(rawPos) ELSE rawPos}})

\* a handleMouseMove that drags the lot vertices lying on the moved point along
handleMouseMoveDraggingVertices(snap, rawPos, client) ==
    LET final(worldPos) ==
            LET newPos == Pos(worldPos.x - dragOffset.x, worldPos.y - dragOffset.y)
            IN IF snap THEN snapped(newPos) ELSE newPos
        body(worldPos, finalPos) ==
            LET box == IF activeTool = "box-select" /\ selectionBoxStart # None
                       THEN [selectionBoxEnd |-> Some(worldPos)] ELSE NoUpdate
                dx == client.x - dragStart.x
                dy == client.y - dragStart.y
                pan == IF activeTool \in {"pan", "select"} /\ isDragging
                       THEN [viewBox |-> [viewBox EXCEPT
                                             !.x = viewBox.x - (dx * viewBox.w) \div RectWidth,
                                             !.y = viewBox.y - (dy * viewBox.w) \div RectWidth],
                             dragStart |-> client]
                       ELSE NoUpdate
                moved(e) == IF Some(e.id) = movingId
                            THEN [e EXCEPT !.x = finalPos.x, !.y = finalPos.y] ELSE e
                onMoved(vx) == \E q \in Range(points) :
                                   Some(q.id) = movingId /\ q.x = vx.x /\ q.y = vx.y
                movedVertex(vx) == IF onMoved(vx)
                                   THEN [vx EXCEPT !.x = finalPos.x, !.y = finalPos.y] ELSE vx
                movedLot(poly) == [poly EXCEPT !.points = Map(poly.points, movedVertex)]
                move == IF activeTool = "move" /\ isDragging /\ movingId # None
                        THEN IF movingType = Some("point")
                             THEN [points |-> Map(points, moved),
                                   polygons |-> Map(polygons, movedLot)]
                             ELSE IF movingType = Some("annotation")
                             THEN [annotations |-> Map(annotations, moved)]
                             ELSE NoUpdate
                        ELSE NoUpdate
                measure == IF activeTool = "measure" /\ measureStart # None
                           THEN [measureEnd |-> Some(worldPos)] ELSE NoUpdate
            IN Then(Then(Then(box, pan), move), measure)
        snappedBody(worldPos) == The({body(worldPos, finalPos) : finalPos \in {final(worldPos)}})
    IN The({snappedBody(worldPos) :
                worldPos \in {IF snap /\ activeTool \notin {"pan", "select", "box-select"}
                              THEN snapped(rawPos) ELSE rawPos}})

\* handleMouseMove as a render with snapEnabled = snap defines it
handleMouseMoveWith(snap, rawPos, client) ==
    LET final(worldPos) ==
            LET newPos == Pos(worldPos.x - dragOffset.x, worldPos.y - dragOffset.y)
            IN IF snap THEN snapped(newPos) ELSE newPos
        body(worldPos, finalPos) ==
            LET box == IF activeTool = "box-select" /\ selectionBoxStart # None
                       THEN [selectionBoxEnd |-> Some(worldPos)] ELSE NoUpdate
                dx == client.x - dragStart.x
                dy == client.y - dragStart.y
                pan == IF activeTool \in {"pan", "select"} /\ isDragging
                       THEN [viewBox |-> [viewBox EXCEPT
                                             !.x = viewBox.x - (dx * viewBox.w) \div RectWidth,
                                             !.y = viewBox.y - (dy * viewBox.w) \div RectWidth],
                             dragStart |-> client]
                       ELSE NoUpdate
                moved(e) == IF Some(e.id) = movingId
                            THEN [e EXCEPT !.x = finalPos.x, !.y = finalPos.y] ELSE e
                move == IF activeTool = "move" /\ isDragging /\ movingId # None
                        THEN IF movingType = Some("point")
                             THEN [points |-> Map(points, moved)]
                             ELSE IF movingType = Some("annotation")
                             THEN [annotations |-> Map(annotations, moved)]
                             ELSE NoUpdate
                        ELSE NoUpdate
                measure == IF activeTool = "measure" /\ measureStart # None
                           THEN [measureEnd |-> Some(worldPos)] ELSE NoUpdate
            IN Then(Then(Then(box, pan), move), measure)
        snappedBody(worldPos) == The({body(worldPos, finalPos) : finalPos \in {final(worldPos)}})
    IN The({snappedBody(worldPos) :
                worldPos \in {IF snap /\ activeTool \notin {"pan", "select", "box-select"}
                              THEN snapped(rawPos) ELSE rawPos}})

handleMouseMove(rawPos, client) == handleMouseMoveWith(snapEnabled, rawPos, client)

\* the box selection with the borders of the rectangle left out
boxSelectionWithoutBorders(a, b) ==
    LET minX == Min(a.x, b.x)
        maxX == Max(a.x, b.x)
        minY == Min(a.y, b.y)
        maxY == Max(a.y, b.y)
        inside(p) == p.x > minX /\ p.x < maxX /\ p.y > minY /\ p.y < maxY
        polyInside(poly) == \E i \in 1..Len(poly.points) : inside(poly.points[i])
        ids == Map(SelectSeq(points, inside), LAMBDA e : e.id)
                   \o Map(SelectSeq(annotations, inside), LAMBDA e : e.id)
                   \o Map(SelectSeq(polygons, polyInside), LAMBDA e : e.id)
        RECURSIVE addAll(_)
        addAll(n) == IF n = 0 THEN << >> ELSE SetAdd(addAll(n - 1), ids[n])
    IN addAll(Len(ids))

\* the members the box selection adds, in the order of the three loops
boxSelection(a, b) ==
    LET minX == Min(a.x, b.x)
        maxX == Max(a.x, b.x)
        minY == Min(a.y, b.y)
        maxY == Max(a.y, b.y)
        inside(p) == p.x >= minX /\ p.x <= maxX /\ p.y >= minY /\ p.y <= maxY
        polyInside(poly) == \E i \in 1..Len(poly.points) : inside(poly.points[i])
        ids == Map(SelectSeq(points, inside), LAMBDA e : e.id)
                   \o Map(SelectSeq(annotations, inside), LAMBDA e : e.id)
                   \o Map(SelectSeq(polygons, polyInside), LAMBDA e : e.id)
        RECURSIVE addAll(_)
        addAll(n) == IF n = 0 THEN << >> ELSE SetAdd(addAll(n - 1), ids[n])
    IN addAll(Len(ids))

\* handleMouseUp without the pushHistory of the move tool
handleMouseUpWithoutPush ==
    LET box == IF activeTool = "box-select" /\ selectionBoxStart # None
                    /\ selectionBoxEnd # None
               THEN [selectedIds |-> boxSelection(selectionBoxStart[1], selectionBoxEnd[1]),
                     selectionBoxStart |-> None, selectionBoxEnd |-> None,
                     activeTool |-> "select"]
               ELSE NoUpdate
        reset == [isDragging |-> FALSE, movingId |-> None, movingType |-> None,
                  originalPos |-> None]
    IN Then(box, reset)

\* handleMouseUp without the resets of its last line
handleMouseUpKeepingDrag ==
    LET push == IF activeTool = "move" /\ isDragging /\ movingId # None
                THEN updateStateWithHistory(points, annotations, polygons)
                ELSE NoUpdate
        box == IF activeTool = "box-select" /\ selectionBoxStart # None
                    /\ selectionBoxEnd # None
               THEN [selectedIds |-> boxSelection(selectionBoxStart[1], selectionBoxEnd[1]),
                     selectionBoxStart |-> None, selectionBoxEnd |-> None,
                     activeTool |-> "select"]
               ELSE NoUpdate
    IN Then(push, box)

handleMouseUp ==
    LET push == IF activeTool = "move" /\ isDragging /\ movingId # None
                THEN updateStateWithHistory(points, annotations, polygons)
                ELSE NoUpdate
        box == IF activeTool = "box-select" /\ selectionBoxStart # None
                    /\ selectionBoxEnd # None
               THEN [selectedIds |-> boxSelection(selectionBoxStart[1], selectionBoxEnd[1]),
                     selectionBoxStart |-> None, selectionBoxEnd |-> None,
                     activeTool |-> "select"]
               ELSE NoUpdate
        reset == [isDragging |-> FALSE, movingId |-> None, movingType |-> None,
                  originalPos |-> None]
    IN Then(Then(push, box), reset)

RemoveAt(s, i) == SubSeq(s, 1, i - 1) \o SubSeq(s, i + 1, Len(s))

\* sum of the field values of a sequence of positions
RECURSIVE SumX(_)
SumX(ps) == IF Len(ps) = 0 THEN 0 ELSE Head(ps).x + SumX(Tail(ps))

RECURSIVE SumY(_)
SumY(ps) == IF Len(ps) = 0 THEN 0 ELSE Head(ps).y + SumY(Tail(ps))

\* sqrt((cx - x)^2 + (cy - y)^2) < tolerance * 2 for the centroid (cx, cy),
\* both sides multiplied by the number of vertices
centroidHit(poly, worldPos) ==
    LET n == Len(poly.points)
        ex == SumX(poly.points) - n * worldPos.x
        ey == SumY(poly.points) - n * worldPos.y
    IN Within(ex * ex + ey * ey, Ratio(2 * n * hitTolerance.num, hitTolerance.den))

\* handleMapClick as a render with snapEnabled = snap defines it; text is
\* the result of prompt(): None when cancelled or empty
handleMapClickWith(snap, rawPos, text) ==
    LET body(worldPos) ==
            LET newId == <<"P", Len(points) + 1>>
                newPoints == Append(points, [id |-> newId, x |-> worldPos.x, y |-> worldPos.y,
                                             z |-> 0, desc |-> "Novo Ponto"])
                newAnnos == Append(annotations,
                                   [id |-> <<"T", Len(annotations) + 1>>, x |-> worldPos.x,
                                    y |-> worldPos.y, text |-> text[1], size |-> 12,
                                    color |-> DarkTextColor])
                hitPointIdx == hitIndex(points, worldPos)
                hitAnnoIdx == hitIndex(annotations, worldPos)
                hitPoly == FindIndex(polygons, LAMBDA poly : centroidHit(poly, worldPos))
                newPolys == SelectSeq(polygons, LAMBDA poly : poly.id # polygons[hitPoly].id)
            IN IF isDragging THEN NoUpdate
               ELSE IF activeTool \in {"point", "polyline"}
               THEN Then([points |-> newPoints],
                         updateStateWithHistory(newPoints, annotations, polygons))
               ELSE IF activeTool = "text"
               THEN IF text # None
                    THEN Then(Then([annotations |-> newAnnos],
                                   updateStateWithHistory(points, newAnnos, polygons)),
                              [activeTool |-> "select"])
                    ELSE NoUpdate
               ELSE IF activeTool = "delete"
               THEN IF hitPointIdx # 0
                    THEN updateStateWithHistory(RemoveAt(points, hitPointIdx), annotations, polygons)
                    ELSE IF hitAnnoIdx # 0
                    THEN updateStateWithHistory(points, RemoveAt(annotations, hitAnnoIdx), polygons)
                    ELSE IF hitPoly # 0
                    THEN updateStateWithHistory(points, annotations, newPolys)
                    ELSE NoUpdate
               ELSE IF activeTool = "area"
               THEN [areaPoints |-> Append(areaPoints, worldPos)]
               ELSE IF activeTool = "measure"
               THEN IF measureStart = None
                    THEN [measureStart |-> Some(worldPos), measureEnd |-> Some(worldPos)]
                    ELSE [measureEnd |-> Some(worldPos), activeTool |-> "select"]
               ELSE NoUpdate
    IN The({body(worldPos) : worldPos \in {IF snap THEN snapped(rawPos) ELSE rawPos}})

handleMapClick(rawPos, text) == handleMapClickWith(snapEnabled, rawPos, text)

\* a wheel zoom that keeps the top left corner of the viewport
handleWheelFromCorner(direction) ==
    LET wChange == (viewBox.w \div 10) * direction
        hChange == (viewBox.h \div 10) * direction
    IN [viewBox |-> [x |-> viewBox.x, y |-> viewBox.y,
                     w |-> viewBox.w + wChange, h |-> viewBox.h + hChange]]

\* the Zoom Extents button
handleZoomExtents ==
    LET newViewBox == [x |-> 0, y |-> 0, w |-> 1000, h |-> 1000]
    IN [viewHistory |-> Append(viewHistory, viewBox), viewBox |-> newViewBox]

\* Zoom Previous taking the oldest viewport of the view history
handleZoomPreviousOldest ==
    IF Len(viewHistory) > 0
    THEN LET prev == viewHistory[1]
         IN [viewHistory |-> SubSeq(viewHistory, 2, Len(viewHistory)), viewBox |-> prev]
    ELSE NoUpdate

\* the Zoom Previous button
handleZoomPrevious ==
    IF Len(viewHistory) > 0
    THEN LET prev == viewHistory[Len(viewHistory)]
         IN [viewHistory |-> SubSeq(viewHistory, 1, Len(viewHistory) - 1), viewBox |-> prev]
    ELSE NoUpdate

\* onWheel: direction is 1 for deltaY > 0 and -1 otherwise; exact while
\* viewBox.w and viewBox.h are multiples of 20
handleWheel(direction) ==
    LET wChange == (viewBox.w \div 10) * direction
        hChange == (viewBox.h \div 10) * direction
    IN [viewBox |-> [x |-> viewBox.x - wChange \div 2, y |-> viewBox.y - hChange \div 2,
                     w |-> viewBox.w + wChange, h |-> viewBox.h + hChange]]

\* a number as it is stored in a point: NotANumber for NaN
NumberOf(f) == IF f = None THEN NotANumber ELSE f[1]

\* handleManualAddPoint, with the newPointData the inputs of the dialog hold:
\* the texts of X, Y, Z and the description
handleManualAddPoint(newPointData) ==
    IF newPointData.x # << >> /\ newPointData.y # << >>
    THEN LET newId == <<"P", Len(points) + 1>>
             p == [id |-> newId,
                   x |-> NumberOf(parseFloat(Some(newPointData.x))),
                   y |-> NumberOf(parseFloat(Some(newPointData.y))),
                   z |-> orZero(parseFloat(Some(newPointData.z)))[1],
                   desc |-> IF newPointData.desc = << >> THEN "Manual"
                            ELSE Text(newPointData.desc)]
             newPoints == Append(points, p)
         IN Then([points |-> newPoints],
                 updateStateWithHistory(newPoints, annotations, polygons))
    ELSE NoUpdate

\* handleFinishArea storing the length of the open path through the vertices
handleFinishAreaOpenPath ==
    IF Len(areaPoints) < 3
    THEN [areaPoints |-> << >>, activeTool |-> "select"]
    ELSE LET area == calculateArea(areaPoints)
             perimeter == calculatePerimeter(Append(areaPoints, areaPoints[1]))
                              - calculatePerimeter(<<areaPoints[Len(areaPoints)], areaPoints[1]>>) \div 2
             newPoly == [id |-> <<"Lote ", Len(polygons) + 1>>, points |-> areaPoints,
                         color |-> SelectedColor, area |-> area,
                         perimeter |-> perimeter, filled |-> TRUE]
             newPolys == Append(polygons, newPoly)
         IN Then(Then([polygons |-> newPolys],
                      updateStateWithHistory(points, annotations, newPolys)),
                 [areaPoints |-> << >>, selectedIds |-> <<newPoly.id>>,
                  activeTool |-> "select"])

\* handleFinishArea returning early only below two vertices
handleFinishAreaFromTwo ==
    IF Len(areaPoints) < 2
    THEN [areaPoints |-> << >>, activeTool |-> "select"]
    ELSE LET area == calculateArea(areaPoints)
             perimeter == calculatePerimeter(Append(areaPoints, areaPoints[1]))
             newPoly == [id |-> <<"Lote ", Len(polygons) + 1>>, points |-> areaPoints,
                         color |-> SelectedColor, area |-> area,
                         perimeter |-> perimeter, filled |-> TRUE]
             newPolys == Append(polygons, newPoly)
         IN Then(Then([polygons |-> newPolys],
                      updateStateWithHistory(points, annotations, newPolys)),
                 [areaPoints |-> << >>, selectedIds |-> <<newPoly.id>>,
                  activeTool |-> "select"])

handleFinishArea ==
    IF Len(areaPoints) < 3
    THEN [areaPoints |-> << >>, activeTool |-> "select"]
    ELSE LET area == calculateArea(areaPoints)
             perimeter == calculatePerimeter(Append(areaPoints, areaPoints[1]))
             newPoly == [id |-> <<"Lote ", Len(polygons) + 1>>, points |-> areaPoints,
                         color |-> SelectedColor, area |-> area,
                         perimeter |-> perimeter, filled |-> TRUE]
             newPolys == Append(polygons, newPoly)
         IN Then(Then([polygons |-> newPolys],
                      updateStateWithHistory(points, annotations, newPolys)),
                 [areaPoints |-> << >>, selectedIds |-> <<newPoly.id>>,
                  activeTool |-> "select"])

----------------------------------------------------------------------------
(* SurveyMap: toolbar, status bar and property inspector *)

Tools == {"select", "pan", "point", "polyline", "move", "delete", "measure",
          "area", "text", "box-select"}

\* a toolbar whose Measure button keeps the start point of the last measurement
toolButtonKeepingStart(t) == [activeTool |-> t]

\* the onClick of the toolbar button of tool t
toolButton(t) ==
    IF t = "measure"
    THEN [activeTool |-> "measure", measureStart |-> None]
    ELSE [activeTool |-> t]

\* the OSNAP button
snapButton == [snapEnabled |-> ~snapEnabled]

selectionData ==
    IF Len(selectedIds) = 0 THEN None
    ELSE LET id == selectedIds[1]
             poly == FindIndex(polygons, LAMBDA e : e.id = id)
             anno == FindIndex(annotations, LAMBDA e : e.id = id)
             selectedPoints == SelectSeq(points, LAMBDA e : e.id \in Range(selectedIds))
         IN IF poly # 0 THEN Some([type |-> "polygon", data |-> polygons[poly]])
            ELSE IF anno # 0 THEN Some([type |-> "annotation", data |-> annotations[anno]])
            ELSE IF Len(selectedPoints) > 0
            THEN Some([type |-> "points", data |-> selectedPoints])
            ELSE None

inspectorShows(type) == selectionData # None /\ selectionData[1].type = type

\* the onClick of the <text> element of the annotation a, which stops the
\* propagation of the click
annotationClick(a) == [selectedIds |-> <<a.id>>]

\* onChange of "Cor do Lote"
polygonColorChange(value) ==
    LET id == selectionData[1].data.id
    IN [polygons |-> Map(polygons, LAMBDA e : IF e.id = id THEN [e EXCEPT !.color = value] ELSE e)]

\* onChange of the annotation's text, size and colour inputs
annotationTextChange(value) ==
    LET id == selectionData[1].data.id
    IN [annotations |-> Map(annotations, LAMBDA e : IF e.id = id THEN [e EXCEPT !.text = value] ELSE e)]

annotationSizeChange(value) ==
    LET id == selectionData[1].data.id
    IN [annotations |-> Map(annotations, LAMBDA e : IF e.id = id THEN [e EXCEPT !.size = value] ELSE e)]

annotationColorChange(value) ==
    LET id == selectionData[1].data.id
    IN [annotations |-> Map(annotations, LAMBDA e : IF e.id = id THEN [e EXCEPT !.color = value] ELSE e)]

----------------------------------------------------------------------------
(* GeoMaster (src/unnamed/part_000): the snap logic of the map             *)
(*                                                                         *)
(* Northings and eastings are integers in millimetres, relative to         *)
(* (7 500 000 m, 350 000 m), a node of the 5 m grid.  Map coordinates are  *)
(* integers in units of 1/2000 pixel, in which the midpoint of two         *)
(* normalized points is exact.  Distances are compared by their squares.   *)

GeoPoint(id, name, n, e, desc) == [id |-> id, name |-> name, n |-> n, e |-> e, desc |-> desc]

INITIAL_POINTS ==
    << GeoPoint("1", "M-01", 123456, 123456, "Marco"),
       GeoPoint("2", "C-01", 145120, 140220, "Cerca"),
       GeoPoint("3", "C-02", 130880, 180550, "Cerca"),
       GeoPoint("4", "P-01", 100200, 160100, "Poste"),
       GeoPoint("5", "B-01", 90500, 130800, "Bordo"),
       GeoPoint("6", "B-02", 80120, 110400, "Bordo"),
       GeoPoint("7", "E-01", 110330, 90900, "Eixo"),
       GeoPoint("8", "M-02", 155000, 110000, "Marco"),
       GeoPoint("9", "G-01", 135000, 150000, "Natural"),
       GeoPoint("10", "G-02", 115000, 105000, "Natural") >>

\* useState<SnapSettings>; vertices, midpoints, gridInterval (5 m) and
\* distance (15 px) have no control in the interface
InitialSnapSettings ==
    [enabled |-> TRUE, vertices |-> TRUE, midpoints |-> TRUE, grid |-> FALSE,
     gridInterval |-> 5000, distance |-> 30000]

\* useState(1)
mapZoom == 1

\* layerConfigs starts with one visible layer per description of the initial
\* points; a description it has no entry for counts as not visible
layerVisible(desc) == \E i \in 1..Len(INITIAL_POINTS) : INITIAL_POINTS[i].desc = desc

getMapExtent ==
    [minN |-> SetMin({gmPoints[i].n : i \in 1..Len(gmPoints)}),
     maxN |-> SetMax({gmPoints[i].n : i \in 1..Len(gmPoints)}),
     minE |-> SetMin({gmPoints[i].e : i \in 1..Len(gmPoints)}),
     maxE |-> SetMax({gmPoints[i].e : i \in 1..Len(gmPoints)})]

\* (max - min) || 100
rangeOr100(min, max) == IF max - min = 0 THEN 100000 ELSE max - min

\* map units per millimetre along x (700 px over rangeE) and along y (500 px
\* over rangeN)
UnitsPerMmX(mapExtent) == 1400000 \div rangeOr100(mapExtent.minE, mapExtent.maxE)

UnitsPerMmY(mapExtent) == 1000000 \div rangeOr100(mapExtent.minN, mapExtent.maxN)

\* normalizePoint and denormalize are computed exactly when rangeE divides
\* 700 px and rangeN divides 500 px in map units
ExactExtent ==
    /\ 1400000 % rangeOr100(getMapExtent.minE, getMapExtent.maxE) = 0
    /\ 1000000 % rangeOr100(getMapExtent.minN, getMapExtent.maxN) = 0

normalizePoint(p) ==
    LET mapExtent == getMapExtent
    IN [x |-> (p.e - mapExtent.minE) * UnitsPerMmX(mapExtent) + 100000,
        y |-> 1100000 - (p.n - mapExtent.minN) * UnitsPerMmY(mapExtent)]

denormalize(x, y) ==
    LET mapExtent == getMapExtent
    IN [e |-> (x - 100000) \div UnitsPerMmX(mapExtent) + mapExtent.minE,
        n |-> mapExtent.minN + (1100000 - y) \div UnitsPerMmY(mapExtent)]

\* Math.round(v / gridInterval) * gridInterval
roundToGrid(v, gridInterval) == ((2 * v + gridInterval) \div (2 * gridInterval)) * gridInterval

\* Math.sqrt(dx ** 2 + dy ** 2) < minDist, for minDist2 the square of a
\* minDist of at most snapSettings.distance / mapZoom
Nearer(dx, dy, minDist2) ==
    LET reach == snapSettings.distance \div mapZoom
    IN /\ Abs(dx) < reach /\ Abs(dy) < reach
       /\ dx * dx + dy * dy < minDist2

\* points.forEach of the vertex snap, from the i-th point on: the closest
\* visible point found and the square of its distance
RECURSIVE closestVertexFrom(_, _, _, _, _)
closestVertexFrom(i, worldMouseX, worldMouseY, minDist2, closest) ==
    IF i > Len(gmPoints) THEN [minDist2 |-> minDist2, closest |-> closest]
    ELSE LET p == gmPoints[i]
             c == normalizePoint(p)
             dx == c.x - worldMouseX
             dy == c.y - worldMouseY
         IN IF layerVisible(p.desc) /\ Nearer(dx, dy, minDist2)
            THEN closestVertexFrom(i + 1, worldMouseX, worldMouseY, dx * dx + dy * dy, Some(p))
            ELSE closestVertexFrom(i + 1, worldMouseX, worldMouseY, minDist2, closest)

\* the loop of the midpoint snap, from the i-th point on; the dist field of
\* closestMid is left out
RECURSIVE closestMidFrom(_, _, _, _, _)
closestMidFrom(i, worldMouseX, worldMouseY, minDist2, closestMid) ==
    IF i > Len(gmPoints) - 1 THEN [minDist2 |-> minDist2, closestMid |-> closestMid]
    ELSE LET p1 == normalizePoint(gmPoints[i])
             p2 == normalizePoint(gmPoints[i + 1])
             midX == (p1.x + p2.x) \div 2
             midY == (p1.y + p2.y) \div 2
             dx == midX - worldMouseX
             dy == midY - worldMouseY
         IN IF layerVisible(gmPoints[i].desc) /\ Nearer(dx, dy, minDist2)
            THEN closestMidFrom(i + 1, worldMouseX, worldMouseY, dx * dx + dy * dy,
                                Some([point |-> Pos(midX, midY),
                                      label |-> <<"Mid", gmPoints[i].name, gmPoints[i + 1].name>>]))
            ELSE closestMidFrom(i + 1, worldMouseX, worldMouseY, minDist2, closestMid)

\* the grid snap of handleMouseMove: snapMidpoint is the state of the render
\* the handler was created in, not the closestMid of this pointer-move
gridSnap(foundVertex, minDist2, worldMouseX, worldMouseY) ==
    IF ~foundVertex /\ snapMidpoint = None /\ snapSettings.grid
    THEN LET worldPos == denormalize(worldMouseX, worldMouseY)
             gridInterval == snapSettings.gridInterval
             snappedN == roundToGrid(worldPos.n, gridInterval)
             snappedE == roundToGrid(worldPos.e, gridInterval)
             screenPos == normalizePoint(GeoPoint("temp", "", snappedN, snappedE, ""))
         IN IF Nearer(worldMouseX - screenPos.x, worldMouseY - screenPos.y, minDist2)
            THEN [snapGrid |-> Some([point |-> Pos(screenPos.x, screenPos.y)])]
            ELSE [snapGrid |-> None]
    ELSE [snapGrid |-> None]

\* the snap logic of handleMouseMove ("2. Snap Logic"), with no point being
\* moved and the split tool off
snapLogic(worldMouseX, worldMouseY) ==
    IF snapSettings.enabled
    THEN LET reach == snapSettings.distance \div mapZoom
             vertex == IF snapSettings.vertices
                       THEN closestVertexFrom(1, worldMouseX, worldMouseY, reach * reach, None)
                       ELSE [minDist2 |-> reach * reach, closest |-> None]
             foundVertex == vertex.closest # None
             vertexSnap == IF foundVertex
                           THEN [snapPoint |-> vertex.closest, snapMidpoint |-> None,
                                 snapGrid |-> None]
                           ELSE [snapPoint |-> None]
             searched == ~foundVertex /\ snapSettings.midpoints
             mid == IF searched
                    THEN closestMidFrom(1, worldMouseX, worldMouseY, vertex.minDist2, None)
                    ELSE [minDist2 |-> vertex.minDist2, closestMid |-> None]
             midSnap == IF searched
                        THEN Then([snapMidpoint |-> mid.closestMid],
                                  IF mid.closestMid # None THEN [snapGrid |-> None] ELSE NoUpdate)
                        ELSE [snapMidpoint |-> None]
         IN Then(Then(vertexSnap, midSnap),
                 gridSnap(foundVertex, mid.minDist2, worldMouseX, worldMouseY))
    ELSE [snapPoint |-> None, snapMidpoint |-> None, snapGrid |-> None]

----------------------------------------------------------------------------
(* Events *)

\* the state variables the setters write
State ==
    [points |-> points, annotations |-> annotations, polygons |-> polygons,
     selectedIds |-> selectedIds, history |-> history, historyIndex |-> historyIndex,
     viewBox |-> viewBox, activeTool |-> activeTool, snapEnabled |-> snapEnabled,
     isDragging |-> isDragging, dragStart |-> dragStart, dragOffset |-> dragOffset,
     selectionBoxStart |-> selectionBoxStart, selectionBoxEnd |-> selectionBoxEnd,
     movingId |-> movingId, movingType |-> movingType, originalPos |-> originalPos,
     measureStart |-> measureStart, measureEnd |-> measureEnd,
     areaPoints |-> areaPoints, viewHistory |-> viewHistory]

\* the next render shows the state s, after the event ev
Render(s, ev) ==
    /\ points' = s.points
    /\ annotations' = s.annotations
    /\ polygons' = s.polygons
    /\ selectedIds' = s.selectedIds
    /\ history' = s.history
    /\ historyIndex' = s.historyIndex
    /\ viewBox' = s.viewBox
    /\ activeTool' = s.activeTool
    /\ snapEnabled' = s.snapEnabled
    /\ isDragging' = s.isDragging
    /\ dragStart' = s.dragStart
    /\ dragOffset' = s.dragOffset
    /\ selectionBoxStart' = s.selectionBoxStart
    /\ selectionBoxEnd' = s.selectionBoxEnd
    /\ movingId' = s.movingId
    /\ movingType' = s.movingType
    /\ originalPos' = s.originalPos
    /\ measureStart' = s.measureStart
    /\ measureEnd' = s.measureEnd
    /\ areaPoints' = s.areaPoints
    /\ viewHistory' = s.viewHistory
    /\ lastEvent' = ev
    /\ UNCHANGED gmVars

\* the bounds of the model: the longest history, point list, annotation
\* list, polygon list and area buffer a step may produce
Limits(maxHistory, maxPoints) ==
    [history |-> maxHistory, points |-> maxPoints, annotations |-> MaxAnnotations,
     polygons |-> MaxPolygons, areaPoints |-> MaxAreaPoints]

Fits(s, limits) ==
    /\ Len(s.history) <= limits.history
    /\ Len(s.points) <= limits.points
    /\ Len(s.annotations) <= limits.annotations
    /\ Len(s.polygons) <= limits.polygons
    /\ Len(s.areaPoints) <= limits.areaPoints

\* the event ev, whose handlers made the setter calls u
Apply(u, ev) == \E s \in {u @@ State} : Render(s, ev)

\* the same, within the bounds of the model
ApplyWithin(u, ev, limits) ==
    \E s \in {u @@ State} : Fits(s, limits) /\ Render(s, ev)

\* the inputs of a pointer event: e.type, fromSvg of its position,
\* e.shiftKey, and what prompt() returns if the handler calls it
Input(type, worldPos, shiftKey, text) ==
    Some([type |-> type, pos |-> worldPos, shiftKey |-> shiftKey, text |-> text])

\* the mount effect of App has run: it runs before the first event
Mounted == Len(history) > 0

\* The toolbar lies outside the map container, whose onMouseLeave is
\* handleMouseUp: the pointer reaches it only after handleMouseUp has run.
PointerOutside == ~isDragging /\ selectionBoxStart = None

Init ==
    /\ points = InitialPoints
    /\ annotations = << >>
    /\ polygons = << >>
    /\ selectedIds = << >>
    /\ history = << >>
    /\ historyIndex = -1
    /\ viewBox = InitialViewBox
    /\ activeTool = "select"
    /\ snapEnabled = TRUE
    /\ isDragging = FALSE
    /\ dragStart = Pos(0, 0)
    /\ dragOffset = Pos(0, 0)
    /\ selectionBoxStart = None
    /\ selectionBoxEnd = None
    /\ movingId = None
    /\ movingType = None
    /\ originalPos = None
    /\ measureStart = None
    /\ measureEnd = None
    /\ areaPoints = << >>
    /\ viewHistory = << >>
    /\ lastEvent = "init"
    /\ lastInput = None
    /\ gmPoints = INITIAL_POINTS
    /\ snapSettings = InitialSnapSettings
    /\ snapPoint = None
    /\ snapMidpoint = None
    /\ snapGrid = None

Mount == ~Mounted /\ Apply(mountEffect, "mount") /\ lastInput' = None

SetTool(t) ==
    Mounted /\ PointerOutside /\ Apply(toolButton(t), "tool") /\ lastInput' = None

\* the Undo and Redo buttons (disabled when undo and redo would do nothing)
Undo == Mounted /\ PointerOutside /\ Apply(undo, "undo") /\ lastInput' = None

Redo == Mounted /\ PointerOutside /\ Apply(redo, "redo") /\ lastInput' = None

MouseDown(worldPos, client, shiftKey) ==
    /\ Mounted
    /\ Apply(handleMouseDown(worldPos, client, shiftKey), "mouseDown")
    /\ lastInput' = Input("mousedown", worldPos, shiftKey, None)

MouseMove(worldPos, client) ==
    /\ Mounted
    /\ Apply(handleMouseMove(worldPos, client), "mouseMove")
    /\ lastInput' = Input("mousemove", worldPos, FALSE, None)

\* onWheel, at most MaxZooms tenths away from the initial zoom
Wheel(direction) ==
    /\ Mounted
    /\ viewBox.w % 20 = 0 /\ viewBox.h % 20 = 0
    /\ Apply(handleWheel(direction), "wheel")
    /\ 10 * Abs(viewBox'.w - InitialViewBox.w) <= MaxZooms * InitialViewBox.w
    /\ lastInput' = None

\* the state variables of GeoPro CAD
appVars ==
    <<points, annotations, polygons, selectedIds, history, historyIndex,
      viewBox, activeTool, snapEnabled, isDragging, dragStart, dragOffset,
      selectionBoxStart, selectionBoxEnd, movingId, movingType,
      originalPos, measureStart, measureEnd, areaPoints, viewHistory>>

\* an event ev of GeoMaster, whose handler made the setter calls u
gmApply(u, ev) ==
    \E s \in {u @@ [gmPoints |-> gmPoints, snapSettings |-> snapSettings,
                    snapPoint |-> snapPoint, snapMidpoint |-> snapMidpoint,
                    snapGrid |-> snapGrid]} :
        /\ gmPoints' = s.gmPoints
        /\ snapSettings' = s.snapSettings
        /\ snapPoint' = s.snapPoint
        /\ snapMidpoint' = s.snapMidpoint
        /\ snapGrid' = s.snapGrid
        /\ lastEvent' = ev
        /\ UNCHANGED appVars

\* onSave of the new point dialog, at most MaxNewPoints times
NewPointSave(p) ==
    /\ Len(gmPoints) < Len(INITIAL_POINTS) + MaxNewPoints
    /\ gmApply([gmPoints |-> Append(gmPoints, p)], "newPoint")
    /\ lastInput' = None

\* the magnet button
SnapButtonClick ==
    /\ gmApply([snapSettings |-> [snapSettings EXCEPT !.enabled = ~snapSettings.enabled]],
               "snapButton")
    /\ lastInput' = None

\* the grid checkbox of the snap options
GridCheckboxChange(checked) ==
    /\ gmApply([snapSettings |-> [snapSettings EXCEPT !.grid = checked]], "gridCheckbox")
    /\ lastInput' = None

\* onMouseMove of the GeoMaster map with the pointer over the survey
\* position (n, e), at mapPan (0, 0)
SurveyMouseMove(n, e) ==
    /\ ExactExtent
    /\ \E m \in {normalizePoint(GeoPoint("", "", n, e, ""))} :
           /\ gmApply(snapLogic(m.x, m.y), "surveyMouseMove")
           /\ lastInput' = Input("mousemove", Pos(m.x, m.y), FALSE, None)

\* the Zoom Extents button, while the view history holds less than MaxViews
\* viewports
ZoomExtents ==
    /\ Mounted /\ PointerOutside
    /\ Len(viewHistory) < MaxViews
    /\ Apply(handleZoomExtents, "zoomExtents")
    /\ lastInput' = None

\* the Zoom Previous button
ZoomPrevious ==
    Mounted /\ PointerOutside /\ Apply(handleZoomPrevious, "zoomPrevious") /\ lastInput' = None

\* onMouseUp and onMouseLeave
MouseUp(limits) ==
    /\ Mounted
    /\ ApplyWithin(handleMouseUp, "mouseUp", limits)
    /\ lastInput' = lastInput

MapClick(worldPos, text, limits) ==
    /\ Mounted
    /\ ApplyWithin(handleMapClick(worldPos, text), "click", limits)
    /\ lastInput' = Input("click", worldPos, FALSE, text)

\* The "Finalizar Area" button is rendered inside the map container: its
\* click runs handleFinishArea and then bubbles to handleMapClick.
FinishAreaClick(worldPos, limits) ==
    /\ Mounted
    /\ activeTool = "area" /\ Len(areaPoints) > 2
    /\ ApplyWithin(Then(handleFinishArea, handleMapClick(worldPos, None)),
                   "finishArea", limits)
    /\ lastInput' = Input("click", worldPos, FALSE, None)

\* The OSNAP button is rendered inside the map container as well.
SnapClick(worldPos, limits) ==
    /\ Mounted
    /\ ApplyWithin(Then(snapButton, handleMapClick(worldPos, None)),
                   "snapButton", limits)
    /\ lastInput' = Input("click", worldPos, FALSE, None)

\* A click on the text of the i-th annotation: the pointer has gone down and
\* up on the anchor of the text, which lies inside the text.
AnnotationClick(i) ==
    /\ Mounted
    /\ i \in 1..Len(annotations)
    /\ lastEvent = "mouseUp" /\ lastInput # None
    /\ lastInput[1].type = "mousedown"
    /\ lastInput[1].pos = Pos(annotations[i].x, annotations[i].y)
    /\ Apply(annotationClick(annotations[i]), "annotationClick")
    /\ lastInput' = Input("click", lastInput[1].pos, lastInput[1].shiftKey, None)

PolygonColor(value) ==
    /\ Mounted
    /\ inspectorShows("polygon")
    /\ Apply(polygonColorChange(value), "inspector")
    /\ lastInput' = None

AnnotationText(value) ==
    /\ Mounted
    /\ inspectorShows("annotation")
    /\ Apply(annotationTextChange(value), "inspector")
    /\ lastInput' = None

AnnotationSize(value) ==
    /\ Mounted
    /\ inspectorShows("annotation")
    /\ Apply(annotationSizeChange(value), "inspector")
    /\ lastInput' = None

AnnotationColor(value) ==
    /\ Mounted
    /\ inspectorShows("annotation")
    /\ Apply(annotationColorChange(value), "inspector")
    /\ lastInput' = None

----------------------------------------------------------------------------
(* Inputs *)

\* 1 m east of M-04 (within the hit tolerance of 3.4 m), and free positions
NearM04 == Pos(911, 500)

Free1 == Pos(1500, 1200)

Free2 == Pos(2000, 1500)

Free3 == Pos(1500, 1800)

Client0 == Pos(400, 300)

\* the position of M-04
OnM04 == Pos(901, 500)

\* 1 m east of M-01
NearM01 == Pos(1015, 2002)

\* two positions 6 m apart and the position half way between them
SnapA == Pos(1500, 1200)

SnapB == Pos(1560, 1200)

SnapMid == Pos(1530, 1200)

\* a point 200 m east of M-04: with it the world is 200 m wide and the snap
\* tolerance is 3.6 m
Wide == Pos(2901, 1200)

\* 3.6 m and 3.5 m north of SnapA
SnapEdge == Pos(1500, 1236)

SnapInner == Pos(1500, 1235)

\* the corners of a lot whose first corner snaps to M-04
FrameCorners == <<NearM04, Free2, Free3>>

\* the corners of a lot in the order they are clicked, and positions within
\* 0.1 m of the centroid of that lot and on the centroid of the lot whose
\* vertices are the three corners and Free3 once more
LotCorners == <<Free1, Free2, Free3>>

LotCentre1 == Pos(1667, 1500)

LotCentre2 == Pos(1625, 1575)

\* 100 pixels to the right of Client0
Client1 == Pos(500, 300)

----------------------------------------------------------------------------
(* Spec: the move and delete tools on the points and on one annotation,   *)
(* placed with the text tool, and the history                             *)

Next ==
    \/ Mount
    \/ \E t \in {"move", "text", "delete"} : SetTool(t)
    \/ Undo
    \/ Redo
    \/ \E p \in {NearM04, Free1} : MouseDown(p, Client0, FALSE)
    \/ MouseMove(Free2, Client0)
    \/ MouseUp(Limits(MaxHistory, Len(points)))
    \/ \E p \in {NearM04, Free1} : MapClick(p, None, Limits(MaxHistory, Len(points)))
    \/ activeTool = "text" /\ MapClick(Free1, Some("A"), Limits(MaxHistory - 1, Len(points)))

Spec == Init /\ [][Next]_vars

----------------------------------------------------------------------------
(* SpecHistory: a long run of commits (point-tool clicks), undos and redos *)

NextHistory ==
    \/ Mount
    \/ SetTool("point")
    \/ MapClick(Free1, None, Limits(MaxCommits + 1, Len(InitialPoints) + MaxCommits))
    \/ Undo
    \/ Redo

SpecHistory == Init /\ [][NextHistory]_vars

----------------------------------------------------------------------------
(* SpecArea: the area tool, the polygon inspector and the history *)

\* handleFinishArea where its button is not rendered
FinishAreaCall ==
    /\ Mounted
    /\ Len(areaPoints) <= 2
    /\ Apply(handleFinishArea, "finishAreaCall")
    /\ lastInput' = None

NextArea ==
    \/ Mount
    \/ SetTool("area")
    \/ \E p \in {Free1, Free2, Free3} : MapClick(p, None, Limits(MaxHistory, Len(points)))
    \/ FinishAreaClick(Free3, Limits(MaxHistory, Len(points)))
    \/ FinishAreaCall
    \/ PolygonColor("#00ff00")
    \/ Undo
    \/ Redo

SpecArea == Init /\ [][NextArea]_vars

----------------------------------------------------------------------------
(* SpecMeasure: the measure tool, area drawings that are abandoned, OSNAP *)

NextMeasure ==
    \/ Mount
    \/ \E t \in {"select", "area", "measure"} : SetTool(t)
    \/ MouseDown(Free1, Client0, FALSE)
    \/ MouseMove(Free2, Client0)
    \/ MouseUp(Limits(MaxHistory, Len(points)))
    \/ /\ \E p \in {NearM04, Free1} : MapClick(p, None, Limits(MaxHistory, Len(points)))
       /\ Len(areaPoints') <= MaxBuffered
    \/ /\ SnapClick(Free1, Limits(MaxHistory, Len(points)))
       /\ Len(areaPoints') <= MaxBuffered

SpecMeasure == Init /\ [][NextMeasure]_vars

----------------------------------------------------------------------------
(* SpecGesture: the gestures of the select, pan, move and box-select tools *)

NextGesture ==
    \/ Mount
    \/ \E t \in {"select", "pan", "move", "box-select"} : SetTool(t)
    \/ \E p \in {NearM04, Free1} : MouseDown(p, Client0, FALSE)
    \/ /\ MouseMove(Free2, Client1)
       /\ -viewBox'.x <= MaxPans * (Client1.x - Client0.x)
    \/ SnapClick(Free1, Limits(MaxHistory, Len(points)))
    \/ MouseUp(Limits(MaxHistory, Len(points)))

SpecGesture == Init /\ [][NextGesture]_vars

----------------------------------------------------------------------------
(* SpecPoint: the point, polyline and delete tools on the points, OSNAP *)

NextPoint ==
    \/ Mount
    \/ \E t \in {"point", "polyline", "delete"} : SetTool(t)
    \/ MouseDown(Free1, Client0, FALSE)
    \/ MouseUp(Limits(MaxHistory + 1, Len(points)))
    \/ \E p \in {NearM04, Free1} :
           MapClick(p, None, Limits(MaxHistory + 1, Len(InitialPoints) + MaxHistory))
    \/ SnapClick(Free2, Limits(MaxHistory + 1, Len(points)))
    \/ Undo
    \/ Redo

SpecPoint == Init /\ [][NextPoint]_vars

----------------------------------------------------------------------------
(* SpecLots: lots drawn with the area tool and deleted with the delete tool *)

LotLimits ==
    [history |-> MaxLotHistory, points |-> Len(InitialPoints), annotations |-> 0,
     polygons |-> MaxLots, areaPoints |-> MaxLotVertices]

NextLots ==
    \/ Mount
    \/ \E t \in {"area", "delete"} : SetTool(t)
    \/ /\ activeTool = "area" /\ Len(areaPoints) < Len(LotCorners)
       /\ MapClick(LotCorners[Len(areaPoints) + 1], None, LotLimits)
    \/ FinishAreaClick(Free3, LotLimits)
    \/ /\ activeTool = "delete"
       /\ \E p \in {LotCentre1, LotCentre2} : MapClick(p, None, LotLimits)
    \/ Undo
    \/ Redo

SpecLots == Init /\ [][NextLots]_vars

----------------------------------------------------------------------------
(* SpecSurvey: lots drawn over the corners of a 4 m by 3 m rectangle *)

\* the rectangle (0,0), (4,0), (4,3), (0,3) with its origin on Free1
Rectangle == <<Free1, Pos(Free1.x + 40, Free1.y), Pos(Free1.x + 40, Free1.y + 30),
               Pos(Free1.x, Free1.y + 30)>>

SurveyLimits ==
    [history |-> MaxHistory + 1, points |-> Len(InitialPoints), annotations |-> 0,
     polygons |-> MaxPolygons, areaPoints |-> MaxAreaPoints + 1]

NextSurvey ==
    \/ Mount
    \/ activeTool = "select" /\ polygons = << >> /\ SnapClick(Free2, SurveyLimits)
    \/ polygons = << >> /\ SetTool("area")
    \/ /\ activeTool = "area" /\ Len(areaPoints) < MaxAreaPoints
       /\ \E i \in 1..Len(Rectangle) : MapClick(Rectangle[i], None, SurveyLimits)
    \/ FinishAreaClick(Free2, SurveyLimits)

SpecSurvey == Init /\ [][NextSurvey]_vars

----------------------------------------------------------------------------
(* SpecImport: the manual import dialog, undo and redo *)

\* The Import button of the dialog, with the text typed into its textarea.
ManualImport(importText, limits) ==
    /\ Mounted
    /\ ApplyWithin(handleManualImport(importText), "import", limits)
    /\ lastInput' = Input("import", None, FALSE, Some(importText))

\* lines of an import text: ",1,2"  "a,2.5,1"  ",a,2"  ",1,"  "1,2"  ",1a,2"
\* and a line of one blank
ImportLines ==
    { <<",", "1", ",", "2">>,
      <<"a", ",", "2", ".", "5", ",", "1">>,
      <<",", "a", ",", "2">>,
      <<",", "1", ",">>,
      <<"1", ",", "2">>,
      <<",", "1", "a", ",", "2">>,
      <<" ">> }

\* texts of one line and of two lines
ImportTexts == ImportLines \cup {a \o <<NewLine>> \o b : a, b \in ImportLines}

ImportLimits ==
    [history |-> MaxHistory, points |-> Len(InitialPoints) + 2, annotations |-> 0,
     polygons |-> 0, areaPoints |-> 0]

NextImport ==
    \/ Mount
    \/ \E importText \in ImportTexts : ManualImport(importText, ImportLimits)
    \/ Undo
    \/ Redo

SpecImport == Init /\ [][NextImport]_vars

----------------------------------------------------------------------------
(* SpecTransform: point sets from the empty one to the initial one and more *)

TransformLimits ==
    [history |-> MaxHistory + Len(InitialPoints), points |-> Len(InitialPoints),
     annotations |-> 0, polygons |-> 0, areaPoints |-> 0]

\* east of Free1, north of Free2
East1 == Pos(Free2.x, Free1.y)

\* The delete clicks go to the first point of the list, the point clicks to
\* the corners of a right triangle with a vertical and a horizontal side and
\* to one more position.
NextTransform ==
    \/ Mount
    \/ \E t \in {"point", "delete"} : SetTool(t)
    \/ /\ activeTool = "delete" /\ points # << >>
       /\ MapClick(Pos(points[1].x, points[1].y), None, TransformLimits)
    \/ /\ activeTool = "point"
       /\ \E p \in {Free1, Free2, Free3, East1} : MapClick(p, None, TransformLimits)

SpecTransform == Init /\ [][NextTransform]_vars

----------------------------------------------------------------------------
(* SpecZoom: measure clicks beside M-04 at several zoom levels *)

\* positions 3.0 m, 3.2 m, 3.6 m and 3.8 m east of M-04
ZoomProbes == {Pos(OnM04.x + d, OnM04.y) : d \in {30, 32, 36, 38}}

ZoomLimits ==
    [history |-> MaxHistory - 1, points |-> Len(InitialPoints) + 1, annotations |-> 0,
     polygons |-> 0, areaPoints |-> 0]

NextZoom ==
    \/ Mount
    \/ \E t \in {"measure", "point"} : SetTool(t)
    \/ \E direction \in {1, -1} : Wheel(direction)
    \/ activeTool = "measure" /\ \E p \in ZoomProbes : MapClick(p, None, ZoomLimits)
    \/ activeTool = "point" /\ MapClick(Wide, None, ZoomLimits)

SpecZoom == Init /\ [][NextZoom]_vars

----------------------------------------------------------------------------
(* SpecView: pan drags with the pan and select tools, wheel zooms *)

NextView ==
    \/ Mount
    \/ \E t \in {"select", "pan"} : SetTool(t)
    \/ \E p \in {NearM04, Free1}, shiftKey \in BOOLEAN : MouseDown(p, Client0, shiftKey)
    \/ /\ MouseMove(Free2, Client1)
       /\ -viewBox'.x <= MaxPans * (Client1.x - Client0.x)
    \/ MouseUp(Limits(MaxHistory, Len(points)))
    \/ \E direction \in {1, -1} : Wheel(direction)

SpecView == Init /\ [][NextView]_vars

----------------------------------------------------------------------------
(* SpecGeoMaster: pointer moves over the GeoMaster map, with the snap and *)
(* its grid option switched on and off                                     *)

\* a point entered in the new point dialog, 7500055.000 N 350080.550 E, which
\* makes the extent of the survey 100 m by 100 m; its id is 'M-' and the time
SouthWest == GeoPoint("M-new", "M-03", 55000, 80550, "Marco")

\* pointer positions <<n, e>>: on M-01 and on C-01; on the midpoint of M-01
\* and C-01 and on that of C-01 and C-02; 10 px from the first midpoint and
\* 3.5 px from a grid node, and 7.6 px from the second midpoint and 2.9 px
\* from a grid node; 9 px from M-01 and 4.3 px from a grid node; on a grid
\* node far from the points and midpoints; in the middle of a grid cell
OnVertex == <<123456, 123456>>

OnNextVertex == <<145120, 140220>>

OnMidpoint == <<134288, 131838>>

OnNextMidpoint == <<138000, 160385>>

BesideMidpoint == <<135000, 130500>>

BesideNextMidpoint == <<139500, 160200>>

BesideVertex == <<124500, 124500>>

OnGridNode == <<70000, 170000>>

InGridCell == <<72500, 172500>>

NextGeoMaster ==
    \/ NewPointSave(SouthWest)
    \/ SnapButtonClick
    \/ \E checked \in BOOLEAN : GridCheckboxChange(checked)
    \/ \E at \in {OnVertex, OnNextVertex, OnMidpoint, OnNextMidpoint, BesideMidpoint,
                  BesideNextMidpoint, BesideVertex, OnGridNode, InGridCell} :
           SurveyMouseMove(at[1], at[2])

SpecGeoMaster == Init /\ [][NextGeoMaster]_vars

----------------------------------------------------------------------------
(* SpecNudge: move gestures that take M-04 a short or a long way *)

\* pointer positions 2 m and 6 m east of M-04
Nudge2 == Pos(OnM04.x + 20, OnM04.y)

Nudge6 == Pos(OnM04.x + 60, OnM04.y)

NudgeLimits ==
    [history |-> MaxHistory + 1, points |-> Len(InitialPoints), annotations |-> 0,
     polygons |-> 0, areaPoints |-> 0]

NextNudge ==
    \/ Mount
    \/ \E t \in {"select", "move"} : SetTool(t)
    \/ activeTool = "select" /\ SnapClick(Free2, NudgeLimits)
    \/ activeTool = "move" /\ \E p \in {OnM04, NearM04} : MouseDown(p, Client0, FALSE)
    \/ activeTool = "move" /\ \E p \in {Nudge2, Nudge6, Free2} : MouseMove(p, Client0)
    \/ activeTool = "move" /\ MouseUp(NudgeLimits)

SpecNudge == Init /\ [][NextNudge]_vars

----------------------------------------------------------------------------
(* SpecDialog: the manual point dialog under several tools *)

\* The Adicionar button of the manual point dialog.  The dialog is rendered
\* inside the map container: the click runs handleManualAddPoint and then
\* bubbles to the onClick of the container, with worldPos the position of
\* the button on the map.
ManualAddPointClick(newPointData, worldPos, limits) ==
    /\ Mounted
    /\ ApplyWithin(Then(handleManualAddPoint(newPointData), handleMapClick(worldPos, None)),
                   "manualPoint", limits)
    /\ lastInput' = Input("click", worldPos, FALSE, Some(newPointData))

\* X = 120, Y = 75.5 with a height and a description, and X = 150, Y = 120
\* (the position Free1) with neither
DialogInputs ==
    { [x |-> <<"1", "2", "0">>, y |-> <<"7", "5", ".", "5">>, z |-> <<"3">>, desc |-> <<"a">>],
      [x |-> <<"1", "5", "0">>, y |-> <<"1", "2", "0">>, z |-> << >>, desc |-> << >>] }

DialogLimits ==
    [history |-> MaxHistory + 1, points |-> Len(InitialPoints) + MaxHistory,
     annotations |-> 0, polygons |-> 0, areaPoints |-> MaxBuffered]

NextDialog ==
    \/ Mount
    \/ \E t \in {"select", "point", "area", "move"} : SetTool(t)
    \/ \E newPointData \in DialogInputs : ManualAddPointClick(newPointData, Free2, DialogLimits)
    \/ Undo
    \/ Redo

SpecDialog == Init /\ [][NextDialog]_vars

----------------------------------------------------------------------------
(* SpecSelection: selections with the select tool, deletions with the      *)
(* delete tool, annotations placed with the text tool, and the history     *)

NextSelection ==
    \/ Mount
    \/ \E t \in {"select", "delete", "text"} : SetTool(t)
    \/ Undo
    \/ Redo
    \/ \E p \in {NearM04, Free1}, shiftKey \in BOOLEAN : MouseDown(p, Client0, shiftKey)
    \/ MouseUp(Limits(MaxHistory, Len(points)))
    \/ \E p \in {NearM04, Free1}, text \in {Some("A"), None} :
           MapClick(p, text, Limits(MaxHistory, Len(points)))
    \/ \E i \in 1..Len(annotations) : AnnotationClick(i)

SpecSelection == Init /\ [][NextSelection]_vars

----------------------------------------------------------------------------
(* SpecAnno: the text and select tools, clicks on points and on annotations *)

NextAnno ==
    \/ Mount
    \/ \E t \in {"select", "text"} : SetTool(t)
    \/ \E p \in {NearM04, Free1}, text \in {Some("A"), None} :
           MapClick(p, text, Limits(MaxHistory, Len(points)))
    \/ \E p \in {NearM04, Free1}, shiftKey \in BOOLEAN : MouseDown(p, Client0, shiftKey)
    \/ MouseUp(Limits(MaxHistory, Len(points)))
    \/ \E i \in 1..Len(annotations) : AnnotationClick(i)

SpecAnno == Init /\ [][NextAnno]_vars

----------------------------------------------------------------------------
(* SpecBox: box selections over points, an annotation and a lot *)

NextBox ==
    \/ Mount
    \/ \E t \in {"box-select", "area", "text"} : SetTool(t)
    \/ /\ activeTool = "area" /\ Len(areaPoints) < Len(LotCorners)
       /\ MapClick(LotCorners[Len(areaPoints) + 1], None, Limits(MaxHistory, Len(points)))
    \/ FinishAreaClick(Free3, Limits(MaxHistory, Len(points)))
    \/ /\ activeTool = "text"
       /\ MapClick(Free1, Some("A"), Limits(MaxHistory, Len(points)))
    \/ \E p \in {OnM04, Free1} : MouseDown(p, Client0, FALSE)
    \/ \E p \in {Free2, Free3} : MouseMove(p, Client0)
    \/ MouseUp(Limits(MaxHistory, Len(points)))

SpecBox == Init /\ [][NextBox]_vars

----------------------------------------------------------------------------
(* SpecMove: move gestures on points added and deleted before, and on an   *)
(* annotation placed on a point                                            *)

MoveLimits ==
    [history |-> MaxHistory + 1, points |-> Len(InitialPoints) + 1,
     annotations |-> MaxAnnotations, polygons |-> 0, areaPoints |-> 0]

NextMove ==
    \/ Mount
    \/ \E t \in {"point", "delete", "text", "move"} : SetTool(t)
    \/ activeTool = "point" /\ \E p \in {Free1, Free3} : MapClick(p, None, MoveLimits)
    \/ activeTool = "delete" /\ MapClick(NearM04, None, MoveLimits)
    \/ /\ activeTool = "text" /\ MapClick(NearM04, Some("A"), MoveLimits)
       /\ Len(history') < MaxHistory
    \/ \E p \in {NearM04, Free1} : MouseDown(p, Client0, FALSE)
    \/ \E p \in {Free2, NearM01} : MouseMove(p, Client0)
    \/ MouseUp(MoveLimits)

SpecMove == Init /\ [][NextMove]_vars

----------------------------------------------------------------------------
(* SpecSnap: measure clicks next to points, area vertices and an annotation *)

SnapLimits ==
    [history |-> MaxHistory, points |-> Len(InitialPoints) + 2,
     annotations |-> MaxAnnotations, polygons |-> 0, areaPoints |-> MaxBuffered]

NextSnap ==
    \/ Mount
    \/ \E t \in {"point", "area", "text", "measure"} : SetTool(t)
    \/ activeTool = "point" /\ \E p \in {SnapB, Wide} : MapClick(p, None, SnapLimits)
    \/ activeTool = "text" /\ MapClick(SnapA, Some("A"), SnapLimits)
    \/ activeTool = "area" /\ \E p \in {SnapA, SnapB} : MapClick(p, None, SnapLimits)
    \/ activeTool = "measure"
           /\ \E p \in {SnapMid, SnapEdge, SnapInner} : MapClick(p, None, SnapLimits)

SpecSnap == Init /\ [][NextSnap]_vars

----------------------------------------------------------------------------
(* SpecFrame: a lot with a corner on M-04, and the other tools around it *)

FrameLimits ==
    [history |-> MaxHistory, points |-> Len(InitialPoints) + 1,
     annotations |-> MaxAnnotations, polygons |-> MaxPolygons,
     areaPoints |-> MaxAreaPoints]

\* the lot is drawn first, the other tools are used once it is there
LotDrawn == polygons # << >>

\* the viewport v is panned at the initial zoom, or zoomed about the initial
\* centre
PannedOrZoomed(v) ==
    \/ v.w = InitialViewBox.w
    \/ 2 * v.x = InitialViewBox.w - v.w /\ 2 * v.y = InitialViewBox.h - v.h

NextFrame ==
    \/ Mount
    \/ ~LotDrawn /\ SetTool("area")
    \/ /\ activeTool = "area" /\ Len(areaPoints) < Len(FrameCorners)
       /\ MapClick(FrameCorners[Len(areaPoints) + 1], None, FrameLimits)
    \/ FinishAreaClick(Free3, FrameLimits)
    \/ LotDrawn /\ \E t \in {"point", "text", "delete", "move", "pan"} : SetTool(t)
    \/ activeTool = "point" /\ MapClick(Free1, None, FrameLimits)
    \/ activeTool = "text" /\ MapClick(Free1, Some("A"), FrameLimits)
    \/ activeTool = "delete" /\ \E p \in {NearM04, Free1} : MapClick(p, None, FrameLimits)
    \/ LotDrawn /\ MouseDown(NearM04, Client0, FALSE)
    \/ /\ LotDrawn /\ MouseMove(Free1, Client1)
       /\ -viewBox'.x <= MaxPans * (Client1.x - Client0.x)
       /\ PannedOrZoomed(viewBox')
    \/ LotDrawn /\ MouseUp(FrameLimits)
    \/ /\ LotDrawn /\ \E direction \in {1, -1} : Wheel(direction)
       /\ PannedOrZoomed(viewBox')

SpecFrame == Init /\ [][NextFrame]_vars

----------------------------------------------------------------------------
(* SpecViews: pan drags, wheel zooms, Zoom Extents and Zoom Previous *)

NextViews ==
    \/ Mount
    \/ SetTool("pan")
    \/ MouseDown(Free1, Client0, FALSE)
    \/ /\ MouseMove(Free2, Client1)
       /\ -viewBox'.x <= MaxPans * (Client1.x - Client0.x)
       /\ PannedOrZoomed(viewBox')
    \/ MouseUp(Limits(MaxHistory, Len(points)))
    \/ \E direction \in {1, -1} : Wheel(direction) /\ PannedOrZoomed(viewBox')
    \/ ZoomExtents
    \/ ZoomPrevious

SpecViews == Init /\ [][NextViews]_vars

----------------------------------------------------------------------------
(* Properties of the history *)

DocOf(s) == Doc(s.points, s.annotations, s.polygons)

\* a step of SpecHistory that commits: a click of the point tool
CommitStep == lastEvent' = "click" /\ activeTool = "point" /\ ~isDragging

\* a move gesture is in progress
MoveGesture == activeTool = "move" /\ isDragging /\ movingId # None

\* C1: right after every commit, every undo that takes effect and every redo
\* that takes effect (the steps that change the history or its index), the
\* live document equals history[historyIndex].
C1_LiveIsCurrentEntry ==
    [][(history' # history \/ historyIndex' # historyIndex)
           => LiveDoc' = history'[historyIndex' + 1]]_vars

\* an undo from the third entry back to the second has just taken effect
C1_UndoTookEffect ==
    /\ lastEvent = "undo"
    /\ Len(history) = 3 /\ historyIndex = 1
    /\ history[2] # history[3]
    /\ LiveDoc = history[2]

\* C2: a commit keeps the entries up to the index it started from and nothing
\* beyond, puts the committed snapshot last and the index on it, so that redo
\* does nothing right after it, also when undos preceded the commit.
C2_CommitDiscardsRedoTail ==
    [][CommitStep =>
           LET kept == SubSeq(history, 1, historyIndex + 1)
               n == Len(history')
           IN /\ n > 0
              /\ history'[n] = LiveDoc'
              /\ SubSeq(history', 1, n - 1) \in {kept, Tail(kept)}
              /\ historyIndex' = n - 1
              /\ (redo = NoUpdate)']_vars

\* a commit has cut a redo tail: the oldest entry was evicted while the
\* history was full, and the history is shorter again
C2_CommitAfterUndo ==
    /\ lastEvent = "click"
    /\ Len(history[1].points) > Len(InitialPoints)
    /\ Len(history) < HistoryCap
    /\ historyIndex = Len(history) - 1
    /\ redo = NoUpdate

\* C3: the history never holds more than 50 entries; a commit at the last
\* entry of a full history removes exactly the oldest entry and keeps the
\* others in their order, and any other commit evicts nothing.
C3_HistoryCapped ==
    /\ [](Len(history) <= HistoryCap)
    /\ [][CommitStep =>
              IF historyIndex + 1 = HistoryCap
              THEN history' = Append(Tail(history), LiveDoc')
              ELSE history' = Append(SubSeq(history, 1, historyIndex + 1), LiveDoc')]_vars

\* 60 points committed: 50 entries are left, the initial snapshot and the
\* oldest 10 commits are gone, the oldest entry left is the 11th commit
C3_SixtyCommits ==
    /\ lastEvent = "click"
    /\ Len(points) = Len(InitialPoints) + 60
    /\ Len(history) = 50
    /\ \A i \in 1..50 : Len(history[i].points) = Len(InitialPoints) + 10 + i

\* C4: once the initial snapshot is recorded, 0 <= historyIndex < history.length.
C4_IndexInRange ==
    Len(history) > 0 => 0 <= historyIndex /\ historyIndex < Len(history)

\* a commit has just evicted the oldest entry of a full history
C4_AfterEviction ==
    /\ lastEvent = "click"
    /\ Len(history) = HistoryCap
    /\ historyIndex = HistoryCap - 1
    /\ Len(history[1].points) = Len(InitialPoints) + 1

\* C5: from every reachable state in which undo takes effect, undo and then
\* redo restore the live document that preceded the undo.
C5_UndoThenRedoRestores ==
    [][lastEvent' = "undo" /\ historyIndex > 0 => DocOf((redo @@ State)') = LiveDoc]_vars

\* C6: undo at index 0 and redo at the last entry change neither the live
\* document nor the history nor the index; above index 0 every undo lowers
\* the index by one, so that the undos from the tail of a full history reach
\* index 0 and stay there.
C6_UndoRedoAtTheEnds ==
    [][/\ lastEvent' = "undo" /\ historyIndex = 0
              => UNCHANGED <<points, annotations, polygons, history, historyIndex>>
       /\ lastEvent' = "redo" /\ historyIndex = Len(history) - 1
              => UNCHANGED <<points, annotations, polygons, history, historyIndex>>
       /\ lastEvent' = "undo" /\ historyIndex > 0
              => historyIndex' = historyIndex - 1 /\ history' = history]_vars

\* the undos have reached the first entry of a full history
C6_FullHistoryUndone ==
    /\ lastEvent = "undo"
    /\ Len(history) = HistoryCap
    /\ historyIndex = 0
    /\ LiveDoc = history[1]

----------------------------------------------------------------------------
(* Properties of the tools *)

\* C7: in a move gesture no pointer-down and no pointer-move creates a
\* history entry; the pointer-up (or pointer-leave) that ends it creates
\* exactly one, which holds the document as the last pointer-move left it;
\* a pointer-up outside a move gesture creates none.
C7_MoveGestureCommitsOnce ==
    [][/\ lastEvent' \in {"mouseDown", "mouseMove"} => UNCHANGED <<history, historyIndex>>
       /\ lastEvent' = "mouseUp" /\ MoveGesture
              => /\ history' = Append(SubSeq(history, 1, historyIndex + 1), LiveDoc)
                 /\ historyIndex' = historyIndex + 1
                 /\ LiveDoc' = LiveDoc
                 /\ ~MoveGesture'
       /\ lastEvent' = "mouseUp" /\ ~MoveGesture
              => UNCHANGED <<history, historyIndex>>]_vars

\* a move gesture has ended: the one new entry holds M-04 where it was dropped
C7_GestureEnded ==
    /\ lastEvent = "mouseUp"
    /\ Len(history) = 2 /\ historyIndex = 1
    /\ history[1].points = InitialPoints
    /\ \E i \in 1..Len(points) :
           /\ points[i].id = <<"M-", 4>>
           /\ Pos(points[i].x, points[i].y) # Pos(InitialPoints[4].x, InitialPoints[4].y)
           /\ history[2].points[i] = points[i]

\* C8: whenever no move gesture is in progress, the live document equals
\* history[historyIndex].
C8_LiveIsCommitted ==
    Mounted /\ ~MoveGesture => LiveDoc = history[historyIndex + 1]

\* C9: the click of "Finalizar Area" appends exactly one polygon built from
\* the buffer, creates exactly one history entry, leaves the buffer empty,
\* selects exactly the new polygon and makes select the active tool.
C9_FinishAreaEffect ==
    [][lastEvent' = "finishArea" =>
           LET n == Len(polygons')
           IN /\ n = Len(polygons) + 1
              /\ SubSeq(polygons', 1, n - 1) = polygons
              /\ polygons'[n].points = areaPoints
              /\ history' = Append(SubSeq(history, 1, historyIndex + 1), LiveDoc')
              /\ historyIndex' = historyIndex + 1
              /\ areaPoints' = << >>
              /\ selectedIds' = <<polygons'[n].id>>
              /\ activeTool' = "select"]_vars

PolygonOk(poly) ==
    /\ Len(poly.points) >= 3
    /\ poly.area.num >= 0 /\ poly.area.den > 0
    /\ poly.perimeter >= 0

PolygonsOk(d) == \A i \in 1..Len(d.polygons) : PolygonOk(d.polygons[i])

\* C10: every polygon of the live document and of every history snapshot has
\* at least 3 vertices and a non-negative area and perimeter; handleFinishArea
\* with 2 or fewer buffered vertices creates no polygon and no history entry.
C10_PolygonsWellFormed ==
    /\ [](PolygonsOk(LiveDoc) /\ \A i \in 1..Len(history) : PolygonsOk(history[i]))
    /\ [][lastEvent' = "finishAreaCall"
              => UNCHANGED <<points, annotations, polygons, history, historyIndex>>]_vars

\* a polygon has been finished: it is in the live document and in a snapshot
C10_PolygonFinished ==
    /\ lastEvent = "finishArea"
    /\ Len(polygons) = 1
    /\ Len(polygons[1].points) = 3
    /\ polygons[1].area.num > 0
    /\ polygons[1].perimeter > 0
    /\ Len(history) = 2 /\ history[2].polygons = polygons

\* the step sets the active tool to select: the toolbar button, or a handler
\* that ends the use of another tool
RevertsToSelect ==
    activeTool' = "select" /\ (activeTool # "select" \/ lastEvent' = "tool")

\* C11: whenever the active tool reverts to select, the area vertex buffer is
\* empty, the measurement endpoints are unset and no move target is set.
C11_SelectClearsBuffers ==
    [][RevertsToSelect =>
           /\ areaPoints' = << >>
           /\ measureStart' = None /\ measureEnd' = None
           /\ movingId' = None]_vars

\* no gesture is in progress
Idle == ~isDragging /\ movingId = None /\ selectionBoxStart = None

\* C12: handleMouseUp ends every gesture, no event but a pointer-down starts
\* one, and a pointer-move outside a gesture changes neither the document nor
\* the viewport nor a corner of the selection box.
C12_MoveAfterUpIgnored ==
    /\ [](lastEvent = "mouseUp" => Idle)
    /\ [][Idle /\ lastEvent' # "mouseDown" => Idle']_vars
    /\ [][Idle /\ lastEvent' = "mouseMove"
              => UNCHANGED <<points, annotations, polygons, viewBox,
                             selectionBoxStart, selectionBoxEnd>>]_vars

\* a pointer-move has arrived after the pointer-up of a move gesture that
\* displaced a point
C12_MoveAfterGesture ==
    /\ lastEvent = "mouseMove" /\ Idle
    /\ activeTool = "move"
    /\ Len(history) = 2
    /\ points # InitialPoints /\ points = history[2].points

\* what a commit of the document d makes of the history
Committed(d) ==
    LET pushed == Append(SubSeq(history, 1, historyIndex + 1), d)
    IN IF Len(pushed) > HistoryCap THEN Tail(pushed) ELSE pushed

\* the position a click at p acts on: the snap point near p if OSNAP is on
\* and there is one, else p
ClickedOrSnapped(p) == IF snapEnabled THEN snapped(p) ELSE p

\* C13: with the point or polyline tool, a map click appends exactly one
\* point (z = 0, description 'Novo Ponto') at the clicked or snapped
\* position, changes no other entity and creates exactly one history entry.
C13_PointClickAppendsOne ==
    [][lastEvent' = "click" /\ activeTool \in {"point", "polyline"} =>
           LET at == ClickedOrSnapped(lastInput'[1].pos)
               n == Len(points')
           IN /\ n = Len(points) + 1
              /\ SubSeq(points', 1, n - 1) = points
              /\ points'[n].x = at.x /\ points'[n].y = at.y
              /\ points'[n].z = 0 /\ points'[n].desc = "Novo Ponto"
              /\ annotations' = annotations /\ polygons' = polygons
              /\ history' = Committed(LiveDoc')
              /\ historyIndex' = Len(history') - 1]_vars

\* two polyline clicks 1 m east of M-04: with OSNAP on the first new point
\* lies on M-04, with OSNAP off the second lies where the click was
C13_SnappedAndFreePoint ==
    /\ lastEvent = "click" /\ activeTool = "polyline"
    /\ Len(points) = Len(InitialPoints) + 2
    /\ Pos(points[5].x, points[5].y) = Pos(InitialPoints[4].x, InitialPoints[4].y)
    /\ Pos(points[6].x, points[6].y) = NearM04
    /\ Len(history) = 3 /\ historyIndex = 2
    /\ history[2].points = SubSeq(points, 1, 5)

\* no two members of the list have the same id
DistinctIds(list) ==
    \A i, j \in 1..Len(list) : i # j => list[i].id # list[j].id

\* C14: no two points share an identifier, no two annotations share an
\* identifier and no two polygons share an identifier.
C14_IdsUnique ==
    DistinctIds(points) /\ DistinctIds(annotations) /\ DistinctIds(polygons)

\* the step commits the live document it leaves
CommitsOnce == history' = Committed(LiveDoc') /\ historyIndex' = Len(history') - 1

\* C15: a delete-tool click removes the first point within the tolerance of
\* the clicked or snapped position; if there is none, the first annotation
\* within it; if there is none, the first polygon whose centroid is within
\* twice the tolerance. It removes that entity only and commits once.
C15_DeleteRemovesFirstMatch ==
    [][lastEvent' = "click" /\ activeTool = "delete" /\ ~isDragging =>
           LET at == ClickedOrSnapped(lastInput'[1].pos)
               hitPoint == hitIndex(points, at)
               hitAnno == hitIndex(annotations, at)
               hitPoly == FindIndex(polygons, LAMBDA poly : centroidHit(poly, at))
           IN IF hitPoint # 0
              THEN /\ points' = RemoveAt(points, hitPoint)
                   /\ annotations' = annotations /\ polygons' = polygons
                   /\ CommitsOnce
              ELSE IF hitAnno # 0
              THEN /\ annotations' = RemoveAt(annotations, hitAnno)
                   /\ points' = points /\ polygons' = polygons
                   /\ CommitsOnce
              ELSE IF hitPoly # 0
              THEN /\ polygons' = RemoveAt(polygons, hitPoly)
                   /\ points' = points /\ annotations' = annotations
                   /\ CommitsOnce
              ELSE TRUE]_vars

\* no member of the list lies within the hit tolerance of p
Misses(list, p) ==
    \A i \in 1..Len(list) : ~Within(Dist2(list[i], p), hitTolerance)

\* no polygon has its centroid within twice the hit tolerance of p
MissesLots(p) ==
    \A i \in 1..Len(polygons) : ~centroidHit(polygons[i], p)

\* C16: a delete-tool click, a move-tool pointer-down and a select-tool
\* pointer-down that hit nothing leave the document, the history, its index
\* and the selection unchanged; the missed move pointer-down starts no move,
\* and the pointer-moves and the pointer-up that follow it change none of
\* them either.
C16_MissIsNoOp ==
    [][/\ /\ lastEvent' = "click" /\ activeTool = "delete"
          /\ \E at \in {ClickedOrSnapped(lastInput'[1].pos)} :
                 Misses(points, at) /\ Misses(annotations, at) /\ MissesLots(at)
          => UNCHANGED <<points, annotations, polygons, history, historyIndex,
                         selectedIds>>
       /\ /\ lastEvent' = "mouseDown" /\ activeTool \in {"move", "select"}
          /\ Misses(points, lastInput'[1].pos)
          /\ Misses(annotations, lastInput'[1].pos)
          => /\ UNCHANGED <<points, annotations, polygons, history, historyIndex,
                            selectedIds>>
             /\ movingId' = movingId /\ (MoveGesture' => MoveGesture)
       /\ /\ lastEvent' \in {"mouseMove", "mouseUp"}
          /\ activeTool = "move" /\ ~MoveGesture
          => /\ UNCHANGED <<points, annotations, polygons, history, historyIndex,
                            selectedIds>>
             /\ ~MoveGesture']_vars

\* M-04 is selected and was moved by an earlier gesture; a move-tool
\* pointer-down on a free position has followed and has started no move
C16_MissedMovePointerDown ==
    /\ lastEvent = "mouseDown" /\ activeTool = "move"
    /\ lastInput = Input("mousedown", Free1, FALSE, None)
    /\ Misses(points, Free1)
    /\ movingId = None /\ ~isDragging
    /\ selectedIds = << <<"M-", 4>> >>
    /\ Len(history) = 2 /\ historyIndex = 1
    /\ LiveDoc = history[2]

\* the identifier of the entity a select-tool pointer-down at p hits: the
\* first point within the tolerance, else the first annotation within it
HitId(p) ==
    IF ~Misses(points, p)
    THEN points[CHOOSE i \in 1..Len(points) :
                    /\ Within(Dist2(points[i], p), hitTolerance)
                    /\ \A j \in 1..(i - 1) : ~Within(Dist2(points[j], p), hitTolerance)].id
    ELSE annotations[CHOOSE i \in 1..Len(annotations) :
                         /\ Within(Dist2(annotations[i], p), hitTolerance)
                         /\ \A j \in 1..(i - 1) :
                                ~Within(Dist2(annotations[j], p), hitTolerance)].id

HitsEntity(p) == ~Misses(points, p) \/ ~Misses(annotations, p)

\* C17: a select-tool pointer-down that hits a point or an annotation makes
\* the selection exactly that entity without shift, and toggles the entity in
\* the selection with shift; the click event that follows the pointer-down
\* and the pointer-up leaves that selection as it is.
C17_ClickSelectsOrToggles ==
    [][/\ /\ lastEvent' = "mouseDown" /\ activeTool = "select"
          /\ HitsEntity(lastInput'[1].pos)
          => \E id \in {HitId(lastInput'[1].pos)} :
                 IF ~lastInput'[1].shiftKey
                 THEN selectedIds' = <<id>>
                 ELSE Range(selectedIds') =
                          IF id \in Range(selectedIds)
                          THEN Range(selectedIds) \ {id}
                          ELSE Range(selectedIds) \cup {id}
       /\ /\ lastEvent' \in {"click", "annotationClick"}
          /\ lastEvent = "mouseUp" /\ activeTool = "select"
          /\ lastInput # None /\ lastInput[1].type = "mousedown"
          /\ lastInput'[1].pos = lastInput[1].pos
          /\ HitsEntity(lastInput[1].pos)
          => selectedIds' = selectedIds]_vars

\* p lies in the rectangle spanned by a and b, borders included
InBox(p, a, b) ==
    /\ Min(a.x, b.x) <= p.x /\ p.x <= Max(a.x, b.x)
    /\ Min(a.y, b.y) <= p.y /\ p.y <= Max(a.y, b.y)

\* the identifiers a box selection with the corners a and b has to select
BoxIds(a, b) ==
    {points[i].id : i \in {k \in 1..Len(points) : InBox(points[k], a, b)}}
        \cup {annotations[i].id :
                  i \in {k \in 1..Len(annotations) : InBox(annotations[k], a, b)}}
        \cup {polygons[i].id :
                  i \in {k \in 1..Len(polygons) :
                             \E j \in 1..Len(polygons[k].points) :
                                 InBox(polygons[k].points[j], a, b)}}

\* C18: the pointer-up of a box-select gesture makes the selection exactly
\* the identifiers of the points and annotations inside the rectangle of the
\* two corners, borders included, and of the polygons with a vertex inside
\* it, clears both corners and makes select the active tool.
C18_BoxSelectsInside ==
    [][/\ lastEvent' = "mouseUp" /\ activeTool = "box-select"
       /\ selectionBoxStart # None /\ selectionBoxEnd # None
       => /\ Range(selectedIds') = BoxIds(selectionBoxStart[1], selectionBoxEnd[1])
          /\ Cardinality(Range(selectedIds')) = Len(selectedIds')
          /\ selectionBoxStart' = None /\ selectionBoxEnd' = None
          /\ activeTool' = "select"]_vars

\* a box from the position of M-04 to the second corner of the lot has
\* selected M-04 (on its border), the annotation and the lot, and none of
\* the three points outside it
C18_BoxOverThreeKinds ==
    /\ lastEvent = "mouseUp" /\ activeTool = "select"
    /\ selectionBoxStart = None /\ selectionBoxEnd = None
    /\ Len(points) = 4 /\ Len(annotations) = 1 /\ Len(polygons) = 1
    /\ Range(selectedIds) = {<<"M-", 4>>, <<"T", 1>>, <<"Lote ", 1>>}

\* C19: with the text tool, a click whose prompt returns a non-empty string
\* appends exactly one annotation of size 12 with that text at the clicked or
\* snapped position, commits once and makes select the active tool; a click
\* whose prompt is cancelled or empty changes neither the document nor the
\* history and leaves the text tool active.
C19_TextClick ==
    [][lastEvent' = "click" /\ activeTool = "text" =>
           LET at == ClickedOrSnapped(lastInput'[1].pos)
               text == lastInput'[1].text
               n == Len(annotations')
           IN IF text # None
              THEN /\ n = Len(annotations) + 1
                   /\ SubSeq(annotations', 1, n - 1) = annotations
                   /\ annotations'[n].x = at.x /\ annotations'[n].y = at.y
                   /\ annotations'[n].text = text[1] /\ annotations'[n].size = 12
                   /\ points' = points /\ polygons' = polygons
                   /\ CommitsOnce
                   /\ activeTool' = "select"
              ELSE /\ UNCHANGED <<points, annotations, polygons, history, historyIndex>>
                   /\ activeTool' = "text"]_vars

\* a text click 1 m east of M-04 was answered with 'A': the annotation lies
\* on M-04, the document is committed and the tool is select
C19_AnnotationOnSnapPoint ==
    /\ lastEvent = "click" /\ activeTool = "select"
    /\ lastInput = Input("click", NearM04, FALSE, Some("A"))
    /\ Len(annotations) = 1
    /\ Pos(annotations[1].x, annotations[1].y) = OnM04
    /\ annotations[1].text = "A" /\ annotations[1].size = 12
    /\ Len(history) = 2 /\ historyIndex = 1 /\ history[2] = LiveDoc

----------------------------------------------------------------------------
(* C20: the measure tool *)

\* the position a pointer-move at p reports: handleMouseMove snaps it for
\* every tool but pan, select and box-select
MovedOrSnapped(p) ==
    IF snapEnabled /\ activeTool \notin {"pan", "select", "box-select"}
    THEN snapped(p) ELSE p

\* the step delivers a click to handleMapClick
ClickStep == lastEvent' \in {"click", "snapButton"} /\ ~isDragging

\* C20: the Measure button starts with no start point; the first click then
\* records the clicked or snapped position as start point, a later
\* pointer-move changes only the candidate end point, and the second click
\* fixes the end point and sets the tool to select, after which the two
\* endpoints stay until the tool is measure again.  No pointer event under
\* the measure tool changes the document, the history or the history index.
C20_MeasureInteraction ==
    /\ [][lastEvent' = "tool" /\ activeTool' = "measure" => measureStart' = None]_vars
    /\ [][activeTool = "measure" /\ measureStart = None /\ ClickStep
              => /\ measureStart' = Some(ClickedOrSnapped(lastInput'[1].pos))
                 /\ measureEnd' = measureStart'
                 /\ activeTool' = "measure"]_vars
    /\ [][activeTool = "measure" /\ measureStart # None /\ lastEvent' = "mouseMove"
              => /\ measureEnd' = Some(MovedOrSnapped(lastInput'[1].pos))
                 /\ UNCHANGED <<points, annotations, polygons, selectedIds, history,
                                historyIndex, viewBox, activeTool, snapEnabled,
                                isDragging, dragStart, dragOffset, selectionBoxStart,
                                selectionBoxEnd, movingId, movingType, originalPos,
                                measureStart, areaPoints>>]_vars
    /\ [][activeTool = "measure" /\ measureStart # None /\ ClickStep
              => /\ measureEnd' = Some(ClickedOrSnapped(lastInput'[1].pos))
                 /\ measureStart' = measureStart
                 /\ activeTool' = "select"]_vars
    /\ [][activeTool # "measure" /\ activeTool' # "measure"
              => UNCHANGED <<measureStart, measureEnd>>]_vars
    /\ [][activeTool = "measure"
           /\ lastEvent' \in {"mouseDown", "mouseMove", "mouseUp", "click", "snapButton"}
              => UNCHANGED <<points, annotations, polygons, history, historyIndex>>]_vars

\* a measurement from M-04, found by snapping, to a free position has been
\* fixed by its second click
C20_MeasuredFromSnapPoint ==
    /\ lastEvent = "click" /\ activeTool = "select"
    /\ measureStart = Some(OnM04)
    /\ measureEnd = Some(Free1)
    /\ lastInput = Input("click", Free1, FALSE, None)

----------------------------------------------------------------------------
(* C21: the move gesture *)

\* the index of the first member of the list within the hit tolerance of p
FirstWithin(list, p) ==
    CHOOSE i \in 1..Len(list) :
        /\ Within(Dist2(list[i], p), hitTolerance)
        /\ \A j \in 1..(i - 1) : ~Within(Dist2(list[j], p), hitTolerance)

\* where a pointer-move at p puts the moved entity: the pointer position as
\* handleMouseMove reports it, minus the offset of the pointer-down, or the
\* snap point next to that
MoveTarget(p) ==
    The({ClickedOrSnapped(Pos(w.x - dragOffset.x, w.y - dragOffset.y)) :
             w \in {MovedOrSnapped(p)}})

\* the list after one member with the identifier id has gone to the position at
MovedOne(before, after, id, at) ==
    \E i \in 1..Len(before) :
        /\ before[i].id = id
        /\ after = [before EXCEPT ![i].x = at.x, ![i].y = at.y]

\* C21: a move-tool pointer-down within tolerance of a point starts moving
\* the first such point, also when an annotation is within tolerance, with
\* the offset of the pointer from it; each pointer-move of the gesture puts
\* one entity, of the kind and with the identifier taken at pointer-down,
\* at the pointer position minus that offset, or at the snap point next to
\* it when OSNAP is on, and changes no other entity.
MoveGestureStep ==
    /\ /\ lastEvent' = "mouseDown" /\ activeTool = "move"
       /\ ~Misses(points, lastInput'[1].pos)
       => \E e \in {points[FirstWithin(points, lastInput'[1].pos)]} :
              /\ movingId' = Some(e.id) /\ movingType' = Some("point")
              /\ dragOffset' = Pos(lastInput'[1].pos.x - e.x, lastInput'[1].pos.y - e.y)
              /\ MoveGesture'
    /\ lastEvent' = "mouseMove" /\ MoveGesture
       => \E at \in {MoveTarget(lastInput'[1].pos)} :
              /\ polygons' = polygons
              /\ IF movingType = Some("point")
                 THEN /\ MovedOne(points, points', movingId[1], at)
                      /\ annotations' = annotations
                 ELSE /\ MovedOne(annotations, annotations', movingId[1], at)
                      /\ points' = points

C21_MoveGesture == [][MoveGestureStep]_vars

----------------------------------------------------------------------------
(* C22, C23: the snap resolver *)

\* the i-th candidate lies strictly inside the tolerance of the probe p
Inside(c, i, p) == Within(Dist2(c[i], p), toleranceWorld(15, 1000))

\* the i-th candidate is inside the tolerance, no candidate inside it is
\* nearer to p, and every earlier candidate inside it is farther from p
FirstNearest(c, i, p) ==
    /\ Inside(c, i, p)
    /\ \A j \in 1..Len(c) : Inside(c, j, p) => Dist2(c[i], p) <= Dist2(c[j], p)
    /\ \A j \in 1..(i - 1) : Inside(c, j, p) => Dist2(c[i], p) < Dist2(c[j], p)

\* the position a click at p with OSNAP on has to act on, for the candidates c
SnapOf(c, p) ==
    IF \E i \in 1..Len(c) : Inside(c, i, p)
    THEN c[CHOOSE i \in 1..Len(c) : FirstNearest(c, i, p)]
    ELSE p

\* the points, then the vertices of the area in progress, then the vertices
\* of the polygons
PointsAreaPolygons ==
    [i \in 1..Len(points) |-> Pos(points[i].x, points[i].y)]
        \o areaPoints
        \o Flatten([i \in 1..Len(polygons) |-> polygons[i].points])

\* a click of the measure tool with OSNAP on: its end point is the position
\* the snap resolver gave, or the clicked position if it gave none
SnapProbe ==
    lastEvent' = "click" /\ activeTool = "measure" /\ snapEnabled /\ ~isDragging

WithAnnotationAnchors ==
    PointsAreaPolygons \o [i \in 1..Len(annotations) |-> Pos(annotations[i].x, annotations[i].y)]

\* C23: the anchors of the annotations are snap candidates: a probe within
\* the tolerance of an anchor and of no other candidate snaps to the anchor.
C23_AnnotationAnchorsSnap ==
    [][SnapProbe => measureEnd' = Some(SnapOf(WithAnnotationAnchors, lastInput'[1].pos))]_vars

----------------------------------------------------------------------------
(* C24: tools that ignore OSNAP *)

SnapFreeTools == {"pan", "select", "box-select"}

\* pointer positions next to a snap candidate and away from all of them
SnapFreeProbes == {NearM04, Free2}

\* C24: under the pan, select and box-select tools the setter calls of
\* handleMouseMove and of handleMapClick, and their values, are the same
\* whether the handler was defined by a render with OSNAP on or by one with
\* OSNAP off, so the same pointer events take two states that differ in
\* snapEnabled only to two states that differ in snapEnabled only; a click
\* on the OSNAP button under these tools changes snapEnabled only.
\* (handleMouseDown and handleMouseUp do not read snapEnabled.)
C24_SnapIgnored ==
    /\ [](activeTool \in SnapFreeTools =>
             \A p \in SnapFreeProbes :
                 /\ \A c \in {Client0, Client1} :
                        handleMouseMoveWith(TRUE, p, c) = handleMouseMoveWith(FALSE, p, c)
                 /\ handleMapClickWith(TRUE, p, None) = handleMapClickWith(FALSE, p, None))
    /\ [][lastEvent' = "snapButton" /\ activeTool \in SnapFreeTools =>
              /\ snapEnabled' = ~snapEnabled
              /\ UNCHANGED <<points, annotations, polygons, selectedIds, history,
                             historyIndex, viewBox, activeTool, isDragging, dragStart,
                             dragOffset, selectionBoxStart, selectionBoxEnd, movingId,
                             movingType, originalPos, measureStart, measureEnd,
                             areaPoints>>]_vars

\* a box-select gesture whose pointer has moved with OSNAP off
C24_BoxDragWithoutSnap ==
    /\ lastEvent = "mouseMove" /\ ~snapEnabled
    /\ activeTool = "box-select" /\ selectionBoxStart # None
    /\ selectionBoxEnd = Some(lastInput[1].pos)

----------------------------------------------------------------------------
(* C25: the property inspector *)

\* some selected identifier is the identifier of a member of the list
SelectsOneOf(list) ==
    \E i \in 1..Len(selectedIds), j \in 1..Len(list) : selectedIds[i] = list[j].id

\* C25: the inspector shows a non-empty selection as a polygon if an
\* identifier of a polygon is selected, else as an annotation if an
\* identifier of an annotation is selected, else as the selected points,
\* whatever the order in which the identifiers entered the selection.
C25_InspectorPriority ==
    Len(selectedIds) > 0 =>
        IF SelectsOneOf(polygons) THEN inspectorShows("polygon")
        ELSE IF SelectsOneOf(annotations) THEN inspectorShows("annotation")
        ELSE IF SelectsOneOf(points)
        THEN /\ inspectorShows("points")
             /\ Range(selectionData[1].data)
                    = {points[i] : i \in {k \in 1..Len(points) :
                                              points[k].id \in Range(selectedIds)}}
        ELSE selectionData = None

----------------------------------------------------------------------------
(* C26: commits of an unchanged document *)

\* the pointer-up of a move gesture that left the document as the current
\* history entry has it
UnchangedCommit ==
    /\ lastEvent' = "mouseUp" /\ MoveGesture
    /\ LiveDoc = history[historyIndex + 1]

\* C26: a commit of a document equal to the current history entry appends a
\* new entry all the same: below the cap the history grows by one, the index
\* moves to the new entry, and the last two entries are equal.
C26_NoDeduplication ==
    [][UnchangedCommit /\ historyIndex + 1 < HistoryCap =>
           /\ Len(history') = historyIndex + 2
           /\ historyIndex' = historyIndex + 1
           /\ SubSeq(history', 1, historyIndex + 1) = SubSeq(history, 1, historyIndex + 1)
           /\ history'[historyIndex' + 1] = history'[historyIndex']
           /\ LiveDoc' = history'[historyIndex' + 1]]_vars

\* a move gesture without a pointer-move has ended: the history holds the
\* initial document twice
C26_SameDocumentTwice ==
    /\ lastEvent = "mouseUp" /\ activeTool = "move"
    /\ Len(history) = 2 /\ historyIndex = 1
    /\ history[1] = history[2]
    /\ history[2].points = InitialPoints

\* what the inspector and the exports read of a lot: its vertices and the
\* area and perimeter cached when it was finished
Geometry(poly) ==
    [id |-> poly.id, points |-> poly.points, area |-> poly.area,
     perimeter |-> poly.perimeter]

\* the step removes a point or an annotation and no lot
RemovesOtherEntity ==
    /\ Len(polygons') = Len(polygons)
    /\ Len(points') < Len(points) \/ Len(annotations') < Len(annotations)

\* the step is one of: a point-tool or text-tool click, a pointer event of a
\* gesture, a wheel zoom, a deletion of a point or an annotation
LeavesLotsAlone ==
    \/ lastEvent' \in {"mouseDown", "mouseMove", "mouseUp", "wheel"}
    \/ lastEvent' = "click" /\ activeTool \in {"point", "text"}
    \/ lastEvent' = "click" /\ activeTool = "delete" /\ RemovesOtherEntity

\* C27: a lot that stays in the document keeps its vertices, its cached area
\* and its cached perimeter in every step; point clicks, text clicks, the
\* pointer events of move and pan gestures, wheel zooms and deletions of
\* points and annotations leave the whole list of lots as it was, also when
\* the moved point lies on a vertex of the lot.
C27_LotGeometryKept ==
    [][/\ \A i \in 1..Len(polygons) : \A j \in 1..Len(polygons') :
             polygons'[j].id = polygons[i].id
                 => Geometry(polygons'[j]) = Geometry(polygons[i])
       /\ LeavesLotsAlone => Map(polygons', Geometry) = Map(polygons, Geometry)]_vars

\* M-04 has been dragged off the vertex of Lote 1 that was snapped onto it
C27_PointDraggedOffVertex ==
    /\ lastEvent = "mouseMove" /\ activeTool = "move" /\ isDragging
    /\ polygons # << >> /\ polygons[1].points[1] = OnM04
    /\ \E q \in Range(points) :
          Some(q.id) = movingId /\ q.id = <<"M-", 4>> /\ Pos(q.x, q.y) # OnM04

\* twice the signed area below the edges of the closed loop through pts,
\* edge by edge as trapezoids
Trapezoids(pts) ==
    LET n == Len(pts)
        RECURSIVE sum(_)
        sum(i) == IF i = 0 THEN 0
                  ELSE sum(i - 1) + (pts[i].x - pts[(i % n) + 1].x)
                                        * (pts[i].y + pts[(i % n) + 1].y)
    IN sum(n)

\* the length of the segment from a to b
Length(a, b) == Sqrt((b.x - a.x) * (b.x - a.x) + (b.y - a.y) * (b.y - a.y))

\* the sides of the closed loop through pts: the n - 1 segments between
\* consecutive vertices and the closing segment, once
ClosedLoop(pts) ==
    LET n == Len(pts)
        RECURSIVE path(_)
        path(i) == IF i <= 1 THEN 0 ELSE path(i - 1) + Length(pts[i - 1], pts[i])
    IN path(n) + Length(pts[n], pts[1])

\* C28: the area stored in a finished lot is the absolute shoelace area of
\* its vertices and the stored perimeter is the length of the closed loop
\* through them, the closing segment counted once; the 4 m by 3 m rectangle
\* stores 12 square metres and 14 m.
C28_StoredAreaAndPerimeter ==
    \A i \in 1..Len(polygons) :
        /\ polygons[i].area = Ratio(Abs(Trapezoids(polygons[i].points)), 2)
        /\ polygons[i].perimeter = ClosedLoop(polygons[i].points)
        /\ polygons[i].points = Rectangle
               => polygons[i].area = Ratio(2 * 1200, 2) /\ polygons[i].perimeter = 140

\* the rectangle has just been finished
C28_RectangleFinished ==
    /\ lastEvent = "finishArea"
    /\ polygons # << >> /\ polygons[Len(polygons)].points = Rectangle

\* the cell is a number from its first character to its last
IsNumber(cell) ==
    /\ cell # << >>
    /\ \A i \in 1..Len(cell) : IsDigit(cell[i]) \/ cell[i] = "."
    /\ Cardinality({i \in 1..Len(cell) : cell[i] = "."}) <= 1
    /\ \E i \in 1..Len(cell) : IsDigit(cell[i])

\* the lines of the text whose X and Y columns are numbers
NumericRows(importText) ==
    SelectSeq(split(importText, NewLine),
              LAMBDA line : LET cols == Map(split(line, ","), trim)
                            IN /\ Len(cols) > manualMapping.y
                               /\ IsNumber(cols[manualMapping.x + 1])
                               /\ IsNumber(cols[manualMapping.y + 1]))

\* C29: a manual import appends one point for each line whose X and Y
\* columns are numbers, with the coordinates of the line, in the order of the
\* lines, skips every other line, and adds one entry to the history.
C29_ImportSkipsNonNumeric ==
    [][lastEvent' = "import" /\ trim(lastInput'[1].text[1]) # << >>
          => \E rows \in {NumericRows(lastInput'[1].text[1])} :
                /\ Len(points') = Len(points) + Len(rows)
                /\ SubSeq(points', 1, Len(points)) = points
                /\ \A k \in 1..Len(rows) :
                      \E cols \in {Map(split(rows[k], ","), trim)} :
                         /\ Some(points'[Len(points) + k].x) = parseFloat(Some(cols[2]))
                         /\ Some(points'[Len(points) + k].y) = parseFloat(Some(cols[3]))
                /\ historyIndex' = historyIndex + 1
                /\ history' = Append(SubSeq(history, 1, historyIndex + 1),
                                     Doc(points', annotations, polygons))]_vars

\* world coordinates and drawing coordinates the round trips are tried on:
\* inside and outside the bounds, whole and fractional
WorldProbes ==
    {Pos(Num(0), Num(0)), Pos(Num(Free1.x), Num(Free1.y)), Pos(Num(-500), Ratio(24011, 10)),
     Pos(Ratio(24011, 10), Num(OnM04.y))}

SvgProbes ==
    {Pos(Num(0), Num(0)), Pos(Num(500), Num(1000)), Pos(Num(1000), Ratio(-1, 3)),
     Pos(Ratio(-1, 3), Num(500))}

\* C30: under the transform of every point set, the empty one and those of
\* zero width or height included, fromSvg undoes toSvg and toSvg undoes
\* fromSvg.
C30_RoundTrip ==
    /\ \A w \in WorldProbes :
          \E s \in {toSvg(w.x, w.y)} : fromSvg(s.svgX, s.svgY) = w
    /\ \A s \in SvgProbes :
          \E w \in {fromSvg(s.x, s.y)} : toSvg(w.x, w.y) = [svgX |-> s.x, svgY |-> s.y]

\* two points on one vertical line: a point set of zero width
C30_ZeroWidth ==
    /\ Len(points) = 2 /\ Cardinality(Xs) = 1 /\ Cardinality(Ys) = 2
    /\ lastEvent = "click"

\* the number is finite and greater than zero
Positive(a) == a.den > 0 /\ a.num > 0

\* C31: for every point set, the empty one, a single point and points on
\* one vertical or horizontal line included, the bounds have a width and a
\* height above zero and the scale of the transform is finite and above zero.
C31_PositiveExtentAndScale ==
    \E b \in {bounds} : \E t \in {transform} :
        /\ Positive(b.w) /\ Positive(b.h)
        /\ Positive(t.scale)

\* one point is left: a point set of zero width and zero height
C31_SinglePoint ==
    /\ Len(points) = 1 /\ lastEvent = "click" /\ activeTool = "delete"

\* the world-space radius getNearestSnapPoint uses for its default tolerance
\* of 15 screen pixels
SnapRadius == toleranceWorld(15, 1000)

\* C32: the snap radius for 15 screen pixels is the width of the viewport
\* times a factor that the scale of the transform fixes, 15 / (1000 * scale):
\* at a fixed scale it is proportional to viewBox.w, and half the width gives
\* half the radius.
C32_RadiusFollowsViewport ==
    Times(SnapRadius, Num(1000)) = Times(Num(viewBox.w), Over(Num(15), transform.scale))

\* zoomed in to nine tenths of the width, a measure click 3.2 m from M-04
\* stays where it is: the radius is below the 3.4 m of the initial viewport
C32_SmallerRadiusZoomedIn ==
    /\ lastEvent = "click" /\ activeTool = "measure"
    /\ 10 * viewBox.w = 9 * InitialViewBox.w
    /\ points = InitialPoints
    /\ measureStart = Some(Pos(OnM04.x + 32, OnM04.y)) /\ measureEnd = measureStart

\* a pointer event of a pan drag: the pointer-down of the pan tool or of the
\* select tool on empty space, a pointer-move while that drag lasts, the
\* pointer-up that ends it
PanDragStep ==
    /\ activeTool \in {"pan", "select"}
    /\ \/ lastEvent' = "mouseDown" /\ (activeTool = "pan" \/ ~isDragging) /\ isDragging'
       \/ lastEvent' \in {"mouseMove", "mouseUp"} /\ isDragging

DocumentHistorySelection == <<points, annotations, polygons, history, historyIndex, selectedIds>>

\* C33: the pointer events of a pan drag and the wheel zooms leave the
\* document, the history, the history index and the selection as they are; a
\* pan keeps the size of the viewport; a wheel zoom changes width and height
\* by one tenth each, in the same direction, and keeps the centre of the
\* viewport where it is.
C33_ViewportOnly ==
    [][/\ PanDragStep
          => /\ UNCHANGED DocumentHistorySelection
             /\ viewBox'.w = viewBox.w /\ viewBox'.h = viewBox.h
       /\ lastEvent' = "wheel"
          => /\ UNCHANGED DocumentHistorySelection
             /\ 2 * viewBox'.x + viewBox'.w = 2 * viewBox.x + viewBox.w
             /\ 2 * viewBox'.y + viewBox'.h = 2 * viewBox.y + viewBox.h
             /\ 10 * Abs(viewBox'.w - viewBox.w) = viewBox.w
             /\ viewBox'.w * viewBox.h = viewBox.w * viewBox'.h]_vars

\* a wheel zoom on a panned viewport while M-04 is selected
C33_ZoomAfterPan ==
    /\ lastEvent = "wheel" /\ selectedIds # << >>
    /\ viewBox.w # InitialViewBox.w
    /\ 2 * viewBox.x + viewBox.w < InitialViewBox.w

\* the snap candidates that are not the moved point
OtherCandidates ==
    Map(SelectSeq(points, LAMBDA p : Some(p.id) # movingId), LAMBDA p : Pos(p.x, p.y))
        \o areaPoints
        \o Flatten(Map(polygons, LAMBDA poly : poly.points))

\* no snap candidate other than the moved point lies within the snap radius
\* of the location at
FreeOfOthers(at) ==
    \A i \in 1..Len(OtherCandidates) :
        ~Within(Dist2(OtherCandidates[i], at), toleranceWorld(15, 1000))

\* C34: with OSNAP on, a pointer-move of a move gesture on a point that
\* brings pointer - dragOffset to a location with no other snap candidate
\* within the snap radius puts the moved point on that location.
C34_NotHeldBackByItself ==
    [][(/\ lastEvent' = "mouseMove" /\ activeTool = "move" /\ isDragging
        /\ movingType = Some("point") /\ snapEnabled /\ DistinctIds(points))
          => \E at \in {Pos(lastInput'[1].pos.x - dragOffset.x,
                            lastInput'[1].pos.y - dragOffset.y)} :
                FreeOfOthers(at)
                   => \A i \in 1..Len(points) :
                         Some(points[i].id) = movingId
                            => Pos(points'[i].x, points'[i].y) = at]_vars

\* the point the dialog holds: X and Y as entered, in world units
Entered(newPointData, at) ==
    /\ Some(at.x) = parseFloat(Some(newPointData.x))
    /\ Some(at.y) = parseFloat(Some(newPointData.y))

\* C35: the click on the Adicionar button of the manual point dialog, with X
\* and Y filled in, appends one point with the entered coordinates and adds
\* one history entry, the live document, whatever the active tool is, and
\* changes nothing else of the document.
C35_ManualPointOnce ==
    [][lastEvent' = "manualPoint"
          => /\ Len(points') = Len(points) + 1
             /\ SubSeq(points', 1, Len(points)) = points
             /\ Entered(lastInput'[1].text[1], points'[Len(points')])
             /\ UNCHANGED <<annotations, polygons>>
             /\ historyIndex' = historyIndex + 1
             /\ history' = Append(SubSeq(history, 1, historyIndex + 1), LiveDoc')]_vars

\* C36: undo and redo leave the history list as it is, in length and in
\* every entry; they move historyIndex by at most one and make the entry at
\* the new index the live document.
C36_HistoryListKept ==
    [][lastEvent' \in {"undo", "redo"}
          => /\ history' = history
             /\ Abs(historyIndex' - historyIndex) <= 1
             /\ historyIndex' # historyIndex => LiveDoc' = history[historyIndex' + 1]]_vars

\* an undo has left an entry above the index
C36_UndoneEntryKept ==
    /\ lastEvent = "undo" /\ historyIndex + 1 < Len(history)
    /\ LiveDoc = history[historyIndex + 1] /\ LiveDoc # history[historyIndex + 2]

----------------------------------------------------------------------------
(* C37: the selection and the document *)

\* the identifiers of the points, annotations and polygons of the document
EntityIds ==
    {points[i].id : i \in 1..Len(points)}
        \cup {annotations[i].id : i \in 1..Len(annotations)}
        \cup {polygons[i].id : i \in 1..Len(polygons)}

\* C37: every selected identifier is the identifier of a point, an
\* annotation or a polygon of the document.
C37_SelectionExists == Range(selectedIds) \subseteq EntityIds

----------------------------------------------------------------------------
(* C38: the view history *)

\* C38: the view history is a stack.  Zoom Extents puts the current
\* viewport on top of it and sets the viewport to (0, 0, 1000, 1000); Zoom
\* Previous takes the top viewport off and makes it the viewport, so right
\* after Zoom Extents it restores the viewport Zoom Extents replaced; with
\* an empty view history it changes nothing.
C38_ViewHistoryIsStack ==
    [][/\ lastEvent' = "zoomExtents"
          => /\ viewHistory' = Append(viewHistory, viewBox)
             /\ viewBox' = [x |-> 0, y |-> 0, w |-> 1000, h |-> 1000]
       /\ lastEvent' = "zoomPrevious"
          => IF viewHistory = << >>
             THEN UNCHANGED <<viewHistory, viewBox>>
             ELSE /\ viewBox' = viewHistory[Len(viewHistory)]
                  /\ Append(viewHistory', viewBox') = viewHistory]_vars

\* Zoom Previous has restored a zoomed viewport, with an earlier, panned
\* viewport left in the view history
C38_ViewportRestored ==
    /\ lastEvent = "zoomPrevious"
    /\ viewBox.w # InitialViewBox.w
    /\ Len(viewHistory) = 1 /\ viewHistory[1].x # InitialViewBox.x

----------------------------------------------------------------------------
(* C39: the snap indicators of the GeoMaster map *)

\* the number of snap indicators that are set
Indicators ==
    (IF snapPoint # None THEN 1 ELSE 0) + (IF snapMidpoint # None THEN 1 ELSE 0)
        + (IF snapGrid # None THEN 1 ELSE 0)

\* C39: after every pointer-move over the GeoMaster map at most one of
\* snapPoint, snapMidpoint and snapGrid is set: the vertex snap alone when
\* it finds a point, else the midpoint snap alone when it finds a midpoint.
C39_OneIndicator ==
    lastEvent = "surveyMouseMove"
        => /\ Indicators <= 1
           /\ snapPoint # None => snapMidpoint = None /\ snapGrid = None
           /\ snapMidpoint # None => snapGrid = None

============================================================================
